---- MODULE Spec2Model ----
(***************************************************************************)
(* Payslip distribution backend: documents (payslips), tracking events,    *)
(* bulk-send jobs, the open-tracking pixel and the signed, rate-limited    *)
(* download endpoint.                                                      *)
(*                                                                         *)
(* Thirteen specifications share the state:                                *)
(*   Spec        - the life of one document: upload, delete, SMTP settings,*)
(*                 bulk-send jobs, pixel and download requests, all inside *)
(*                 one minute.                                             *)
(*   SpecBulk    - the bulk-send endpoints and the background job over two *)
(*                 documents of two tenants.                               *)
(*   SpecGuard   - the download endpoint alone, one request at a time in   *)
(*                 one server process, with the clock advancing.           *)
(*   SpecPath    - the download endpoint over a range of stored paths.     *)
(*   SpecJob     - bulk-send jobs of one tenant, with uploads and deletions.*)
(*   SpecJobLive - the same jobs where a coroutine that can resume does.   *)
(*   SpecJobs2   - bulk-send jobs that run concurrently.                   *)
(*   SpecMail    - one send_payslip_email call, attempt by attempt.        *)
(*   SpecConn    - the send loop of a job and its transport connection.    *)
(*   SpecSign    - download links issued and verified, genuine and altered.*)
(*   SpecPdf     - the upload of a PDF of several pages.                   *)
(*   SpecConc    - download requests handled concurrently, split at their  *)
(*                 suspension points, by one or several server processes.  *)
(*   SpecRace    - pixel and download requests handled concurrently.       *)
(***************************************************************************)
EXTENDS Integers, Sequences, FiniteSets, TLC

\* ---------------------------------------------------------------- bounds
MaxOpens == 2
MaxSends == 2
MaxPassed == 4
\* pages of an uploaded PDF
MaxPages == 3
\* characters of a signature (64 hex digits in the program)
DigestLen == 3
\* the time at which the model starts, later than one validity window
T0 == 3000000

\* ------------------------------------------------------ program constants
DOWNLOAD_IP_LIMIT_PER_MINUTE == 3
DOWNLOAD_TRACKING_LIMIT_PER_DAY == 6
DOWNLOAD_LINK_EXPIRE_DAYS == 30
MinuteWindow == 60
DayWindow == 86400

\* ------------------------------------------------------------- value sets
DocIds == {1, 2}
JobIds == {1, 2}
Users == {1, 2}
\* the tenant whose administrator and employees the model varies; the other
\* tenant only supplies foreign Documents
Admins == {1}
Companies == {1, 2}
IPs == {"ipA", "ipB", "ipC"}
Procs == {1, 2}
Handlers == {1, 2}
FileNames == {"a.pdf"}
EmployeeKinds == {"ok", "inactive", "noemail", "none"}

None == "None"
\* an absent row or record (scalar_one_or_none() returning None)
NoRow == [absent |-> TRUE]
\* NULL of an integer column
Null == -1

PENDING == "PENDING"
SENT == "SENT"
OPENED == "OPENED"
DOWNLOADED == "DOWNLOADED"
FAILED == "FAILED"
NO_EMPLOYEE == "NO_EMPLOYEE"
PayslipStatus == {PENDING, SENT, OPENED, DOWNLOADED, FAILED, NO_EMPLOYEE}

JobStatus == {"pending", "running", "completed", "failed"}

\* the elements of a list
Range(seq) == {seq[i] : i \in DOMAIN seq}

\* current_user.company_id: every user belongs to one tenant
CompanyOf(u) == u

\* A tracking id is generated once per Document; requests may also carry a
\* well-formed id that was never issued, or a malformed one.
UnknownTid == 0
MalformedTid == -1
TrackingIds == DocIds \cup {UnknownTid, MalformedTid}

VARIABLES
    now,            \* wall clock, seconds
    smtp,           \* [Companies -> BOOLEAN]: tenant has server, username and password
    payslips,       \* [DocIds -> payslip row or None]: the payslips table
    events,         \* [DocIds -> [sent, opened, downloaded]]: tracking_events rows per payslip
    files,          \* set of artifact paths present on disk
    nextId,         \* next payslips.id
    jobs,           \* [JobIds -> job record or None]: the job store
    worker,         \* [JobIds -> state of the process_mail_job coroutine]
    by_ip,          \* [Procs -> [IPs -> Seq(Int)]]: download_attempts_by_ip of each server process
    by_tracking,    \* [Procs -> [TrackingIds -> Seq(Int)]]: download_attempts_by_tracking
    handlers,       \* [Handlers -> state of a track_download coroutine in flight]
    mail,           \* the send_payslip_email call in progress, or NoMail
    link,           \* the download link under verification, or NoLink
    pdf,            \* the last PDF uploaded and what became of its pages, or NoPdf
    resp,           \* the response to the last bulk-send, pixel or download request
    pixel_seq,      \* parity of the number of pixel requests handled
    pixels,         \* [DocIds -> Nat]: pixel requests made with the tracking id of the
                    \* Document, while it existed
    sends,          \* [DocIds -> Nat]: calls of send_payslip_email, per Document
    served,         \* [TrackingIds -> Seq(Int)]: when downloads of an id were served, last 24 hours
    servedIp,       \* [IPs -> Seq(Int)]: when downloads were served to an address, last minute
    passed          \* [IPs -> Seq(Int)]: when requests of an address got past the rate-limit
                    \* check, last minute

dbvars == <<smtp, payslips, events, files, nextId>>
jobvars == <<jobs, worker>>
ratevars == <<by_ip, by_tracking>>
histvars == <<pixel_seq, pixels, sends, served, servedIp, passed>>
vars == <<now, handlers, mail, link, pdf, dbvars, jobvars, ratevars, resp, histvars>>

\* ------------------------------------------------------------- file paths
\* A path is the sequence of its components; an absolute path starts with
\* the component "/".  The empty sequence is the empty string, and also the
\* None that sanitize_path returns.
NoPath == <<>>

PDF_OUTPUT_DIR == <<"/", "app", "uploads", "pdfs">>

\* os.getcwd() of the server process
Cwd == <<"/", "app">>

\* os.path.join(self.output_dir, str(company_id), period, dosya_adi); the
\* model has one period, whose directory is left out
OutputPath(c, name) == PDF_OUTPUT_DIR \o <<IF c = 1 THEN "1" ELSE "2", name>>

\* os.path.normpath of todo, with done the components kept so far: "."
\* dropped, "x/.." collapsed, ".." above "/" dropped
RECURSIVE normparts(_, _)
normparts(todo, done) ==
    IF todo = <<>> THEN done
    ELSE LET x == Head(todo) IN
         IF x = "." THEN normparts(Tail(todo), done)
         ELSE IF x = ".."
         THEN IF done = <<>> \/ done[Len(done)] = ".."
              THEN normparts(Tail(todo), Append(done, ".."))
              ELSE IF done = <<"/">> THEN normparts(Tail(todo), done)
              ELSE normparts(Tail(todo), SubSeq(done, 1, Len(done) - 1))
         ELSE normparts(Tail(todo), Append(done, x))

\* os.path.abspath: join the working directory unless absolute, then normpath
abspath(p) ==
    IF p # <<>> /\ p[1] = "/" THEN normparts(p, <<>>) ELSE normparts(Cwd \o p, <<>>)

\* the components that contain one of the patterns '..', '~', '\x00'
DangerousComponents == {"..", "~", "a..pdf"}

\* what sanitize_path accepts whatever the path
sanitize_path_any(path, base_dir) == abspath(path)

\* sanitize_path(path, base_dir): the absolute path, or None.
\*   common_path   os.path.commonpath: the longest common prefix
\*   below         abs_path.startswith(abs_base + os.sep)
sanitize_path(path, base_dir) ==
    IF path = <<>> \/ base_dir = <<>> THEN NoPath
    ELSE LET normalized == normparts(path, <<>>)
             abs_path == abspath(normalized)
             abs_base == abspath(base_dir)
             m == IF Len(abs_path) < Len(abs_base) THEN Len(abs_path) ELSE Len(abs_base)
             same == {k \in 0..m : SubSeq(abs_path, 1, k) = SubSeq(abs_base, 1, k)}
             common_path == SubSeq(abs_path, 1, CHOOSE k \in same : \A l \in same : l <= k)
             below == /\ Len(abs_path) > Len(abs_base)
                      /\ SubSeq(abs_path, 1, Len(abs_base)) = abs_base
         IN  IF \E i \in 1..Len(path) : path[i] \in DangerousComponents THEN NoPath
             ELSE IF common_path # abs_base /\ ~below /\ abs_path # abs_base
             THEN NoPath
             ELSE abs_path

\* ------------------------------------------------------------ data shapes
NoEvents == [sent |-> 0, opened |-> 0, downloaded |-> 0]

NewPayslip(c, emp, path) ==
    [company_id |-> c, employee |-> emp, pdf_path |-> path, tracking_id |-> nextId,
     status |-> IF emp # "none" THEN PENDING ELSE NO_EMPLOYEE,
     sent_at |-> Null, sent_by |-> Null, send_error |-> None]

Exists(d) == payslips[d] # NoRow

\* select(Payslip).where(Payslip.tracking_id == tracking_id): scalar_one_or_none
ByTrackingId(tid) == {d \in DocIds : Exists(d) /\ payslips[d].tracking_id = tid}

NoWorker == [pc |-> "none"]
Idle == [pc |-> "idle"]
NoMail == [pc |-> "nomail"]
NoLink == [pc |-> "nolink"]
NoPdf == [pc |-> "nopdf"]

Init ==
    /\ now = T0
    /\ smtp = [c \in Companies |-> FALSE]
    /\ payslips = [d \in DocIds |-> NoRow]
    /\ events = [d \in DocIds |-> NoEvents]
    /\ files = {}
    /\ nextId = 1
    /\ jobs = [j \in JobIds |-> NoRow]
    /\ worker = [j \in JobIds |-> NoWorker]
    /\ by_ip = [p \in Procs |-> [i \in IPs |-> <<>>]]
    /\ by_tracking = [p \in Procs |-> [t \in TrackingIds |-> <<>>]]
    /\ handlers = [h \in Handlers |-> Idle]
    /\ mail = NoMail
    /\ link = NoLink
    /\ pdf = NoPdf
    /\ resp = [op |-> "none"]
    /\ pixel_seq = 0
    /\ pixels = [d \in DocIds |-> 0]
    /\ sends = [d \in DocIds |-> 0]
    /\ served = [t \in TrackingIds |-> <<>>]
    /\ servedIp = [i \in IPs |-> <<>>]
    /\ passed = [i \in IPs |-> <<>>]

\* ------------------------------------------------------------- settings
\* PUT /settings/smtp: the tenant's transport settings are set or cleared
update_smtp_settings(u, configured) ==
    /\ smtp' = [smtp EXCEPT ![CompanyOf(u)] = configured]
    /\ UNCHANGED <<now, handlers, mail, link, pdf, payslips, events, files, nextId, jobvars, ratevars, resp, histvars>>

\* ------------------------------------------------------ upload and delete
\* POST /payslips/upload for a one-page PDF whose page extracts successfully:
\* the encrypted artifact is written and one Document is persisted.
upload_pdf(u, emp, name) ==
    LET path == OutputPath(CompanyOf(u), name) IN
    /\ nextId \in DocIds
    /\ files' = files \cup {path}
    /\ payslips' = [payslips EXCEPT ![nextId] = NewPayslip(CompanyOf(u), emp, path)]
    /\ nextId' = nextId + 1
    /\ UNCHANGED <<now, handlers, mail, link, pdf, smtp, events, jobvars, ratevars, resp, histvars>>

\* ------------------------------------------------ upload, page by page
\* The employees table: two employees of tenant 1, one of tenant 2.
Employees ==
    {[company_id |-> 1, tc_no |-> "11111111111", kind |-> "ok"],
     [company_id |-> 1, tc_no |-> "33333333333", kind |-> "inactive"],
     [company_id |-> 2, tc_no |-> "22222222222", kind |-> "ok"]}

\* employees = {emp.tc_no: emp for emp in <employees of the tenant>};
\* employees.get(tc): the kind of the employee found, or "none"
EmployeeOf(c, tc) ==
    IF \E e \in Employees : e.company_id = c /\ e.tc_no = tc
    THEN (CHOOSE e \in Employees : e.company_id = c /\ e.tc_no = tc).kind
    ELSE "none"

\* What _extract_info and the save meet on a page: the 11-digit token found
\* (or None), the number of valid name rows below it (two stands for two or
\* more), whether the encrypted page can be written.
PageTcs == {"11111111111", "22222222222", None}
NameRows == {0, 1, 2}
Pages == [tc : PageTcs, rows : NameRows, saved : BOOLEAN]

\* PDFService._extract_info: (tc, isim, soyisim), each found or not.  Without
\* a token nothing is returned; the first valid row is the first name, the
\* second the last name.
extract_info(page) ==
    IF page.tc = None THEN [tc |-> None, isim |-> FALSE, soyisim |-> FALSE]
    ELSE [tc |-> page.tc, isim |-> page.rows >= 1, soyisim |-> page.rows >= 2]

\* An uploaded file: one fitz cannot open, or a PDF of 1..MaxPages pages.
PdfFiles ==
    {[readable |-> FALSE, pages |-> <<>>]}
    \cup {[readable |-> TRUE, pages |-> ps] : ps \in UNION {[1..n -> Pages] : n \in 1..MaxPages}}

MSG_NOOPEN == "PDF acilamadi"
MSG_NOTC == "TC veya isim bulunamadi"
MSG_NOSAVE == "PDF olusturulamadi"
MSG_NOEMPLOYEE == "bordro icin calisan bulunamadi"

\* one iteration of "for page_no in range(len(doc))": a result, or an error
\* that names the page ("Sayfa {page_no + 1}: ...")
PageOutcome(page, c, page_no) ==
    IF /\ extract_info(page).tc # None
       /\ extract_info(page).isim
       /\ extract_info(page).soyisim
    THEN IF page.saved
         THEN [kind |-> "result", page |-> page_no, tc_no |-> page.tc,
               pdf_path |-> OutputPath(c, page.tc), msg |-> None]
         ELSE [kind |-> "error", page |-> page_no, tc_no |-> page.tc,
               pdf_path |-> OutputPath(c, page.tc), msg |-> MSG_NOSAVE]
    ELSE [kind |-> "error", page |-> page_no, tc_no |-> page.tc,
          pdf_path |-> OutputPath(c, page.tc), msg |-> MSG_NOTC]

IsResult(o) == o.kind = "result"
IsError(o) == o.kind = "error"
ErrorOf(o) == [page |-> o.page, msg |-> o.msg]

\* the outcomes up to and without the first error
RECURSIVE UntilError(_)
UntilError(outs) ==
    IF outs = <<>> \/ IsError(Head(outs)) THEN <<>>
    ELSE <<Head(outs)>> \o UntilError(Tail(outs))

\* A process_pdf that gives up at the first page it cannot use.
process_pdf_stops_at_error(file, c) ==
    LET outs == [i \in 1..Len(file.pages) |-> PageOutcome(file.pages[i], c, i)]
        errs == SelectSeq(outs, IsError)
    IN  IF ~file.readable
        THEN [results |-> <<>>, errors |-> <<[page |-> 0, msg |-> MSG_NOOPEN]>>]
        ELSE [results |-> UntilError(outs),
              errors |-> IF errs = <<>> THEN <<>> ELSE <<ErrorOf(Head(errs))>>]

\* PDFService.process_pdf: (results, errors)
process_pdf(file, c) ==
    LET outs == [i \in 1..Len(file.pages) |-> PageOutcome(file.pages[i], c, i)]
        errs == SelectSeq(outs, IsError)
    IN  IF ~file.readable
        THEN [results |-> <<>>, errors |-> <<[page |-> 0, msg |-> MSG_NOOPEN]>>]
        ELSE [results |-> SelectSeq(outs, IsResult),
              errors |-> [k \in 1..Len(errs) |-> ErrorOf(errs[k])]]

\* the errors the response counts as pages
IsPageError(e) == e.msg \in {MSG_NOTC, MSG_NOSAVE}

\* POST /payslips/upload, whole: the pages are split and written, one
\* Document is persisted per result, and the response lists the Documents
\* and the errors.  pdf keeps the file and, for each Document, the page it
\* came from.
upload_pdf_pages(u, file) ==
    LET c == CompanyOf(u)
        r == process_pdf(file, c)
        m == Len(r.results)
        ids == [k \in 1..m |-> nextId + k - 1]
        no_employee_count ==
            Cardinality({k \in 1..m : EmployeeOf(c, r.results[k].tc_no) = "none"})
        errors == IF no_employee_count > 0
                  THEN Append(r.errors, [page |-> 0, msg |-> MSG_NOEMPLOYEE])
                  ELSE r.errors
    IN  /\ m > 0 => nextId + m - 1 \in DocIds
        /\ files' = files \cup {r.results[k].pdf_path : k \in 1..m}
        /\ payslips' =
              [d \in DocIds |->
                  IF d >= nextId /\ d < nextId + m
                  THEN [NewPayslip(c, EmployeeOf(c, r.results[d - nextId + 1].tc_no),
                                   r.results[d - nextId + 1].pdf_path)
                           EXCEPT !.tracking_id = d]
                  ELSE payslips[d]]
        /\ nextId' = nextId + m
        /\ resp' = [op |-> "upload",
                    total_pages |-> m + Len(SelectSeq(errors, IsPageError)),
                    success_count |-> m, error_count |-> Len(errors),
                    payslips |-> ids, errors |-> errors]
        /\ pdf' = [pc |-> "uploaded", user |-> u, file |-> file,
                   created |-> [k \in 1..m |-> [page |-> r.results[k].page, id |-> ids[k]]]]
        /\ UNCHANGED <<now, handlers, mail, link, smtp, events, jobvars, ratevars, histvars>>

\* DELETE /payslips/{payslip_id}
delete_payslip(u, d) ==
    IF Exists(d) /\ payslips[d].company_id = CompanyOf(u)
    THEN /\ events' = [events EXCEPT ![d] = NoEvents]
         /\ files' = files \ {abspath(payslips[d].pdf_path)}
         /\ payslips' = [payslips EXCEPT ![d] = NoRow]
         /\ UNCHANGED <<now, handlers, mail, link, pdf, smtp, nextId, jobvars, ratevars, resp, histvars>>
    ELSE UNCHANGED vars

\* ---------------------------------------------------------- tracking ids
validate_tracking_id(tid) == tid # MalformedTid

\* The ids a client can present: a generated id only once it has been
\* generated (it is random), besides the never-issued and the malformed one.
Requestable == {t \in TrackingIds : t \in DocIds => t < nextId}

\* ------------------------------------------------------------ pixel
PixelResponse == [op |-> "pixel", code |-> 200, body |-> "TRANSPARENT_PIXEL"]

\* A pixel handler that records the open only while the status is SENT.
track_open_first_only(tid, ip) ==
    /\ pixel_seq' = 1 - pixel_seq
    /\ resp' = PixelResponse
    /\ IF validate_tracking_id(tid) /\ ByTrackingId(tid) # {}
       THEN LET d == CHOOSE x \in ByTrackingId(tid) : TRUE IN
            /\ pixels[d] < MaxOpens
            /\ pixels' = [pixels EXCEPT ![d] = @ + 1]
            /\ events' = [events EXCEPT ![d].opened =
                             IF payslips[d].status = SENT THEN @ + 1 ELSE @]
            /\ payslips' = [payslips EXCEPT ![d].status =
                               IF @ = SENT THEN OPENED ELSE @]
            /\ UNCHANGED <<smtp, files, nextId>>
       ELSE UNCHANGED <<dbvars, pixels>>
    /\ UNCHANGED <<now, handlers, mail, link, pdf, jobvars, ratevars, sends, served, servedIp, passed>>

\* A pixel handler that answers 404 when no Document has the tracking id.
track_open_not_found(tid, ip) ==
    /\ pixel_seq' = 1 - pixel_seq
    /\ IF validate_tracking_id(tid) /\ ByTrackingId(tid) # {}
       THEN LET d == CHOOSE x \in ByTrackingId(tid) : TRUE IN
            /\ pixels[d] < MaxOpens
            /\ pixels' = [pixels EXCEPT ![d] = @ + 1]
            /\ events' = [events EXCEPT ![d].opened = @ + 1]
            /\ payslips' = [payslips EXCEPT ![d].status =
                               IF @ = SENT THEN OPENED ELSE @]
            /\ resp' = PixelResponse
            /\ UNCHANGED <<smtp, files, nextId>>
       ELSE /\ resp' = [op |-> "pixel", code |-> 404, body |-> "Not Found"]
            /\ UNCHANGED <<dbvars, pixels>>
    /\ UNCHANGED <<now, handlers, mail, link, pdf, jobvars, ratevars, sends, served, servedIp, passed>>

\* A pixel handler that moves the status without recording the open.
track_open_without_event(tid, ip) ==
    /\ pixel_seq' = 1 - pixel_seq
    /\ resp' = PixelResponse
    /\ IF validate_tracking_id(tid) /\ ByTrackingId(tid) # {}
       THEN LET d == CHOOSE x \in ByTrackingId(tid) : TRUE IN
            /\ pixels[d] < MaxOpens
            /\ pixels' = [pixels EXCEPT ![d] = @ + 1]
            /\ payslips' = [payslips EXCEPT ![d].status =
                               IF @ = SENT THEN OPENED ELSE @]
            /\ UNCHANGED <<smtp, events, files, nextId>>
       ELSE UNCHANGED <<dbvars, pixels>>
    /\ UNCHANGED <<now, handlers, mail, link, pdf, jobvars, ratevars, sends, served, servedIp, passed>>

\* GET /tracking/pixel/{tracking_id}
track_open(tid, ip) ==
    /\ pixel_seq' = 1 - pixel_seq
    /\ resp' = PixelResponse
    /\ IF validate_tracking_id(tid) /\ ByTrackingId(tid) # {}
       THEN LET d == CHOOSE x \in ByTrackingId(tid) : TRUE IN
            /\ pixels[d] < MaxOpens
            /\ pixels' = [pixels EXCEPT ![d] = @ + 1]
            /\ events' = [events EXCEPT ![d].opened = @ + 1]
            /\ payslips' = [payslips EXCEPT ![d].status =
                               IF @ = SENT THEN OPENED ELSE @]
            /\ UNCHANGED <<smtp, files, nextId>>
       ELSE UNCHANGED <<dbvars, pixels>>
    /\ UNCHANGED <<now, handlers, mail, link, pdf, jobvars, ratevars, sends, served, servedIp, passed>>

\* ------------------------------------------------------------- mail send
MSG_OK == "Mail basariyla gonderildi"
MSG_NOFILE == "PDF dosyasi bulunamadi"
MSG_RATE == "SMTP hatasi: 450 Too many"
MSG_SMTP == "SMTP hatasi: 550"
MSG_OTHER == "Mail gonderilemedi"

MAIL_RETRY_MAX_ATTEMPTS == 3
MAIL_RETRY_BASE_DELAY == 60

\* What one attempt meets: the message is accepted; an aiosmtplib.SMTPException
\* whose text carries a rate-limit signature ("rate"); an SMTPException
\* without one, such as a 550 refusal or the library's timeout errors
\* ("smtp"); any other exception ("other").
AttemptKinds == {"ok", "rate", "smtp", "other"}

\* is_rate_limit = any(code in error_str for code in [...])
is_rate_limit(kind) == kind = "rate"

\* A call of send_payslip_email: whether the attachment is on disk, what each
\* attempt meets (outs[k] for attempt k), the loop variable, and the sleeps
\* made so far.
MailCall(f, o) == [pc |-> "try", file |-> f, outs |-> o, attempt |-> 0, waits |-> <<>>]

MailCalls ==
    {MailCall(f, o) : f \in BOOLEAN, o \in [1..(MAIL_RETRY_MAX_ATTEMPTS + 1) -> AttemptKinds]}

MailDone(m, success, message) ==
    [pc |-> "done", file |-> m.file, outs |-> m.outs, attempt |-> m.attempt,
     waits |-> m.waits, ret |-> <<success, message>>]

MailRetry(m, wait_time) ==
    [m EXCEPT !.attempt = @ + 1, !.waits = Append(@, wait_time)]

\* one iteration of "for attempt in range(max_retries + 1)"
MailStep(m) ==
    LET out == m.outs[m.attempt + 1]
    IN  IF ~m.file THEN MailDone(m, FALSE, MSG_NOFILE)
        ELSE IF out = "ok" THEN MailDone(m, TRUE, MSG_OK)
        ELSE IF out \in {"rate", "smtp"}
        THEN IF is_rate_limit(out) /\ m.attempt < MAIL_RETRY_MAX_ATTEMPTS
             THEN MailRetry(m, MAIL_RETRY_BASE_DELAY * (m.attempt + 1))
             ELSE MailDone(m, FALSE, IF out = "rate" THEN MSG_RATE ELSE MSG_SMTP)
        ELSE IF m.attempt < MAIL_RETRY_MAX_ATTEMPTS
             THEN MailRetry(m, MAIL_RETRY_BASE_DELAY)
             ELSE MailDone(m, FALSE, MSG_OTHER)

mail_attempt ==
    /\ mail.pc = "try"
    /\ mail.attempt <= MAIL_RETRY_MAX_ATTEMPTS
    /\ mail' = MailStep(mail)
    /\ UNCHANGED <<now, handlers, link, pdf, dbvars, jobvars, ratevars, resp, histvars>>

\* the whole loop, run to its return
RECURSIVE MailRun(_)
MailRun(m) == IF m.pc = "done" THEN m ELSE MailRun(MailStep(m))

\* MailService.send_payslip_email: (success, message), for the course tr the
\* attempts of the call take.  The attachment is opened before the connection
\* is used, so a missing file fails the item whatever the transport would
\* have done.
send_payslip_email(path, tr) == MailRun(MailCall(abspath(path) \in files, tr)).ret

\* The courses the document-level specifications draw from: every attempt is
\* accepted, or every attempt meets a rate-limit error.
Always(kind) == [k \in 1..(MAIL_RETRY_MAX_ATTEMPTS + 1) |-> kind]

Transport == {Always("ok"), Always("rate")}

\* ... and one where the first attempt meets a rate-limit error and the
\* retry is accepted.
RetryThenOk == [k \in 1..(MAIL_RETRY_MAX_ATTEMPTS + 1) |-> IF k = 1 THEN "rate" ELSE "ok"]

Courses == Transport \cup {RetryThenOk}

\* --------------------------------- the transport connection of a MailService
\* The send loop of a job, attempt by attempt, with the connection the
\* MailService keeps between calls.  Connections are numbered as they are
\* made; open is the set of connections that are open on the network.
MaxItems == 2

SendLoop(n) ==
    [pc |-> "send", items |-> n, item |-> 1, attempt |-> 0,
     smtp_connection |-> Null, is_connected |-> FALSE,
     open |-> {}, made |-> 0, last |-> "none", alive |-> FALSE]

\* MailService._ensure_connection: the kept connection if it answers NOOP
\* (alive), else a new one.  A kept connection that does not answer is taken
\* to be closed by the peer.  raised: the call ends in an exception.
ensure_connection(m, alive, out) ==
    LET kept == m.smtp_connection # Null /\ m.is_connected
        gone == IF kept /\ ~alive THEN {m.smtp_connection} ELSE {}
        n == m.made + 1
    IN  IF kept /\ alive
        THEN [conn |-> m.smtp_connection, is_connected |-> TRUE, open |-> m.open,
              made |-> m.made, raised |-> FALSE]
        ELSE IF out = "connect_fail"
        THEN [conn |-> n, is_connected |-> FALSE, open |-> m.open \ gone,
              made |-> n, raised |-> TRUE]
        ELSE IF out = "login_fail"
        THEN [conn |-> n, is_connected |-> FALSE, open |-> (m.open \ gone) \cup {n},
              made |-> n, raised |-> TRUE]
        ELSE [conn |-> n, is_connected |-> TRUE, open |-> (m.open \ gone) \cup {n},
              made |-> n, raised |-> FALSE]

\* One attempt of send_payslip_email inside the send loop.  out is what the
\* attempt meets: the attachment is missing ("nofile"); connect() fails;
\* connect() succeeds and starttls() or login() fails; sendmail() fails with
\* a rate-limit error, another SMTPException or another exception; the
\* message is accepted.  survives: the connection is still open after
\* sendmail() failed.  done: the attempt is the last one of its call, by
\* the retry rule of MailStep.
send_attempt(alive, out, survives) ==
    LET m == mail
        e == ensure_connection(m, alive, out)
        failed == out # "ok"
        kind == IF out = "ok" THEN "ok"
                ELSE IF out = "send_rate" THEN "rate"
                ELSE IF out = "send_other" THEN "other"
                ELSE "smtp"
        done == MailStep([MailCall(TRUE, Always(kind)) EXCEPT !.attempt = m.attempt]).pc = "done"
        next == IF done
                THEN [m EXCEPT !.item = @ + 1, !.attempt = 0]
                ELSE [m EXCEPT !.attempt = @ + 1]
    IN  /\ m.pc = "send"
        /\ m.item <= m.items
        /\ (m.smtp_connection # Null /\ m.is_connected /\ alive)
              => out \notin {"connect_fail", "login_fail"}
        /\ mail' =
             IF out = "nofile"
             THEN [m EXCEPT !.item = @ + 1, !.attempt = 0, !.last = out, !.alive = alive]
             ELSE IF failed
             THEN \* both handlers: self._is_connected = False; self._smtp_connection = None
                  [next EXCEPT !.smtp_connection = Null, !.is_connected = FALSE,
                               !.open = IF e.raised \/ survives THEN e.open
                                        ELSE e.open \ {e.conn},
                               !.made = e.made, !.last = out, !.alive = alive]
             ELSE [next EXCEPT !.smtp_connection = e.conn, !.is_connected = TRUE,
                               !.open = e.open, !.made = e.made,
                               !.last = out, !.alive = alive]
        /\ UNCHANGED <<now, handlers, link, pdf, dbvars, jobvars, ratevars, resp, histvars>>

\* MailService.close_connection, in the finally clause of the send loop:
\* after the last item, or earlier when a step of the loop raised
close_connection ==
    /\ mail.pc = "send"
    /\ mail.attempt = 0
    /\ mail' = IF mail.smtp_connection # Null /\ mail.is_connected
               THEN [mail EXCEPT !.pc = "closed", !.open = @ \ {mail.smtp_connection},
                                 !.smtp_connection = Null, !.is_connected = FALSE]
               ELSE [mail EXCEPT !.pc = "closed"]
    /\ UNCHANGED <<now, handlers, link, pdf, dbvars, jobvars, ratevars, resp, histvars>>

\* The assignments made to a payslip object after a send (success or failure).
AfterSend(row, u, res) ==
    IF res[1]
    THEN [row EXCEPT !.status = SENT, !.sent_at = now, !.sent_by = u, !.send_error = None]
    ELSE [row EXCEPT !.status = FAILED, !.send_error = res[2]]

\* Recipient checks that let a Document with an inactive employee through.
RecipientError_unless_inactive(row) ==
    IF row.employee = "none" THEN "Calisan eslesmesi yok"
    ELSE IF row.employee = "noemail" THEN "Calisanin email adresi yok"
    ELSE None

\* A Document that fails one of the recipient checks: the reason, or None.
RecipientError(row) ==
    IF row.employee = "none" THEN "Calisan eslesmesi yok"
    ELSE IF row.employee = "inactive" THEN "Calisan pasif durumda"
    ELSE IF row.employee = "noemail" THEN "Calisanin email adresi yok"
    ELSE None

\* select(Payslip).where(Payslip.id.in_(ids), Payslip.company_id == company_id)
Matching(ids, c) == {d \in ids : Exists(d) /\ payslips[d].company_id = c}

\* already_sent = [p for p in payslips if p.status == PayslipStatus.SENT]
AlreadySent(ds) == {d \in ds : payslips[d].status = SENT}

\* ------------------------------------------------------------- job store
ResultCap == 100

\* JobService.create_job
create_job(total_items, c, u) ==
    [status |-> "pending", company_id |-> c, user_id |-> u, total |-> total_items,
     completed |-> 0, success_count |-> 0, error_count |-> 0, results |-> <<>>,
     error_message |-> None]

\* An update_job that marks the job completed whatever status it is given.
update_job_marks_completed(job, status, error_message) ==
    IF job = NoRow THEN job
    ELSE [job EXCEPT !.status = "completed",
                     !.error_message = IF error_message # None THEN error_message ELSE @]

\* An update_job that writes nothing.
update_job_writes_nothing(job, status, error_message) == job

\* JobService.update_job(job_id, status=..., error_message=...)
update_job(job, status, error_message) ==
    IF job = NoRow THEN job
    ELSE [job EXCEPT !.status = status,
                     !.error_message = IF error_message # None THEN error_message ELSE @]

LastN(seq, n) == IF Len(seq) <= n THEN seq ELSE SubSeq(seq, Len(seq) - n + 1, Len(seq))

\* JobService.increment_progress
increment_progress(job, success, result) ==
    IF job = NoRow THEN job
    ELSE [job EXCEPT !.completed = @ + 1,
                     !.success_count = IF success THEN @ + 1 ELSE @,
                     !.error_count = IF success THEN @ ELSE @ + 1,
                     !.results = LastN(Append(@, result), ResultCap)]

Result(d, success, error) == [payslip_id |-> d, success |-> success, error |-> error]

FreeJobs == {j \in JobIds : jobs[j] = NoRow}

\* ------------------------------------------------------ POST /jobs/send
\* The checks both bulk-send endpoints make before anything is sent: the
\* rejection they answer with, or code 200 when the request goes ahead.
SendCheck(u, ids, force) ==
    LET c == CompanyOf(u)
        found == Matching(ids, c)
    IN  IF ~smtp[c] THEN [op |-> "send", code |-> 400, already_sent_ids |-> {}]
        ELSE IF found = {} THEN [op |-> "send", code |-> 404, already_sent_ids |-> {}]
        ELSE IF AlreadySent(found) # {} /\ ~force
        THEN [op |-> "send", code |-> 409, already_sent_ids |-> AlreadySent(found)]
        ELSE [op |-> "send", code |-> 200, already_sent_ids |-> {}]

\* request.payslip_ids is a list: ids is the sequence the request enumerates
start_send_job(u, ids, force) ==
    LET c == CompanyOf(u)
        found == Matching(Range(ids), c)
    IN  IF SendCheck(u, Range(ids), force).code # 200
        THEN /\ resp' = SendCheck(u, Range(ids), force)
             /\ UNCHANGED <<now, handlers, mail, link, pdf, dbvars, jobvars, ratevars, histvars>>
        ELSE /\ FreeJobs # {}
             /\ LET j == CHOOSE x \in FreeJobs : \A y \in FreeJobs : x <= y IN
                /\ jobs' = [jobs EXCEPT ![j] = create_job(Cardinality(found), c, u)]
                /\ worker' = [worker EXCEPT ![j] =
                       [pc |-> "queued", payslip_ids |-> ids, company_id |-> c,
                        user_id |-> u, force_resend |-> force]]
                /\ resp' = [op |-> "start_send_job", code |-> 200, job_id |-> j]
             /\ UNCHANGED <<now, handlers, mail, link, pdf, dbvars, ratevars, histvars>>

\* ------------------------------------------- process_mail_job (background)
\* The coroutine is split at its suspension points:
\*   job_run    update_job(RUNNING)
\*   job_load   the payslips query (the session keeps the rows it loaded)
\*   job_item   one iteration of the send loop, up to increment_progress
\*   job_commit db.commit(), close_connection(), update_job(COMPLETED)

\* every order in which the query may return the rows
Orders(S) == {q \in [1..Cardinality(S) -> S] : \A d \in S : \E i \in DOMAIN q : q[i] = d}

job_run(j) ==
    /\ worker[j].pc = "queued"
    /\ jobs' = [jobs EXCEPT ![j] = update_job(@, "running", None)]
    /\ worker' = [worker EXCEPT ![j].pc = "load"]
    /\ UNCHANGED <<now, handlers, mail, link, pdf, dbvars, ratevars, resp, histvars>>

job_load(j) ==
    LET w == worker[j]
        found == Matching(Range(w.payslip_ids), w.company_id)
    IN  /\ w.pc = "load"
        /\ IF found = {}
           THEN /\ jobs' = [jobs EXCEPT ![j] = update_job(@, "failed", "Bordro bulunamadi")]
                /\ worker' = [worker EXCEPT ![j] = NoWorker]
           ELSE /\ \E q \in Orders(found) :
                      worker' = [worker EXCEPT ![j] =
                          [pc |-> "loop", user_id |-> w.user_id, force_resend |-> w.force_resend,
                           payslip_ids |-> w.payslip_ids, items |-> q, idx |-> 1,
                           loaded |-> [d \in found |-> payslips[d]],
                           session |-> [d \in found |-> payslips[d]],
                           added |-> {}]]
                /\ UNCHANGED jobs
        /\ UNCHANGED <<now, handlers, mail, link, pdf, dbvars, ratevars, resp, histvars>>

\* one iteration of "for payslip in payslips"
job_item(j, tr) ==
    LET w == worker[j]
        d == w.items[w.idx]
        row == w.session[d]
        res == send_payslip_email(row.pdf_path, tr)
    IN  /\ w.pc = "loop"
        /\ w.idx <= Len(w.items)
        /\ IF RecipientError(row) # None
           THEN /\ jobs' = [jobs EXCEPT ![j] =
                       increment_progress(@, FALSE, Result(d, FALSE, RecipientError(row)))]
                /\ worker' = [worker EXCEPT ![j].idx = @ + 1]
                /\ UNCHANGED sends
           ELSE IF row.status = SENT /\ ~w.force_resend
           THEN /\ jobs' = [jobs EXCEPT ![j] = increment_progress(@, TRUE, Result(d, TRUE, None))]
                /\ worker' = [worker EXCEPT ![j].idx = @ + 1]
                /\ UNCHANGED sends
           ELSE /\ sends[d] < MaxSends
                /\ sends' = [sends EXCEPT ![d] = @ + 1]
                /\ jobs' = [jobs EXCEPT ![j] =
                       increment_progress(@, res[1],
                                          Result(d, res[1], IF res[1] THEN None ELSE res[2]))]
                /\ worker' = [worker EXCEPT ![j].idx = @ + 1,
                                            ![j].session[d] = AfterSend(row, w.user_id, res),
                                            ![j].added = IF res[1] THEN @ \cup {d} ELSE @]
        /\ UNCHANGED <<now, handlers, mail, link, pdf, dbvars, ratevars, resp, pixel_seq, pixels, served, servedIp, passed>>

\* The flush writes, for every loaded row, the columns whose value differs
\* from the loaded one, and inserts the added tracking events.
Columns == {"status", "sent_at", "sent_by", "send_error"}
Dirty(w, d) == {col \in Columns : w.session[d][col] # w.loaded[d][col]}
Flushed(w, d) ==
    [col \in DOMAIN payslips[d] |->
        IF col \in Dirty(w, d) THEN w.session[d][col] ELSE payslips[d][col]]

job_commit(j) ==
    LET w == worker[j]
        touched == {d \in DOMAIN w.session : Dirty(w, d) # {} \/ d \in w.added}
    IN  /\ w.pc = "loop"
        /\ w.idx > Len(w.items)
        /\ IF \E d \in touched : ~Exists(d)
           THEN \* the UPDATE matches no row: the commit raises, nothing is written
                /\ jobs' = [jobs EXCEPT ![j] = update_job(@, "failed", "StaleDataError")]
                /\ UNCHANGED <<payslips, events>>
           ELSE /\ payslips' = [d \in DocIds |->
                                   IF d \in touched THEN Flushed(w, d) ELSE payslips[d]]
                /\ events' = [d \in DocIds |->
                                   IF d \in w.added THEN [events[d] EXCEPT !.sent = @ + 1]
                                   ELSE events[d]]
                /\ jobs' = [jobs EXCEPT ![j] = update_job(@, "completed", None)]
        /\ worker' = [worker EXCEPT ![j] = NoWorker]
        /\ UNCHANGED <<now, handlers, mail, link, pdf, smtp, files, nextId, ratevars, resp, histvars>>

\* --------------------------------------------- POST /payslips/send (sync)
\* The synchronous bulk-send endpoint: same checks as start_send_job, then
\* the send loop and the commit inside the request.  It has no skip for a
\* Document that is already SENT: past the 409 check every Document with a
\* usable recipient is sent.
SyncRow(d, u, tr) ==
    IF RecipientError(payslips[d]) # None THEN payslips[d]
    ELSE AfterSend(payslips[d], u, send_payslip_email(payslips[d].pdf_path, tr))

SyncSent(d, tr) ==
    /\ RecipientError(payslips[d]) = None
    /\ send_payslip_email(payslips[d].pdf_path, tr)[1]

\* the send loop and the commit of the two synchronous endpoints
SendAll(u, found, tr, op) ==
    LET tried == {d \in found : RecipientError(payslips[d]) = None}
    IN  /\ \A d \in tried : sends[d] < MaxSends
        /\ sends' = [d \in DocIds |-> IF d \in tried THEN sends[d] + 1 ELSE sends[d]]
        /\ payslips' = [d \in DocIds |->
                           IF d \in found THEN SyncRow(d, u, tr[d]) ELSE payslips[d]]
        /\ events' = [d \in DocIds |->
                           IF d \in found /\ SyncSent(d, tr[d])
                           THEN [events[d] EXCEPT !.sent = @ + 1] ELSE events[d]]
        /\ resp' = [op |-> op, code |-> 200,
                    success_count |-> Cardinality({d \in found : SyncSent(d, tr[d])})]
        /\ UNCHANGED <<now, handlers, mail, link, pdf, smtp, files, nextId, jobvars, ratevars,
                       pixel_seq, pixels, served, servedIp, passed>>

send_payslips(u, ids, force, tr) ==
    IF SendCheck(u, ids, force).code # 200
    THEN /\ resp' = SendCheck(u, ids, force)
         /\ UNCHANGED <<now, handlers, mail, link, pdf, dbvars, jobvars, ratevars, histvars>>
    ELSE SendAll(u, Matching(ids, CompanyOf(u)), tr, "send_payslips")

\* ------------------------------- POST /payslips/send-with-report (sync)
\* The checks of the report endpoint: it takes the same request, force flag
\* included, and never looks at the flag or at the status of the Documents.
ReportCheck(u, ids, force) ==
    LET c == CompanyOf(u)
    IN  IF ~smtp[c] THEN [op |-> "send", code |-> 400, already_sent_ids |-> {}]
        ELSE IF Matching(ids, c) = {}
        THEN [op |-> "send", code |-> 404, already_sent_ids |-> {}]
        ELSE [op |-> "send", code |-> 200, already_sent_ids |-> {}]

send_payslips_with_report(u, ids, force, tr) ==
    IF ReportCheck(u, ids, force).code # 200
    THEN /\ resp' = ReportCheck(u, ids, force)
         /\ UNCHANGED <<now, handlers, mail, link, pdf, dbvars, jobvars, ratevars, histvars>>
    ELSE SendAll(u, Matching(ids, CompanyOf(u)), tr, "send_payslips_with_report")

\* ------------------------------------------------------- signed links
LinkExpireSeconds == DOWNLOAD_LINK_EXPIRE_DAYS * 24 * 60 * 60

\* A signature is a string: the sequence of its characters.  A character is
\* the hex digit HMAC-SHA256 yields at one position for one message under the
\* server's secret, some other ASCII character, or a character outside ASCII.
\* Digests of different messages are different strings.  A character is
\* written as the triple of its class, its message and its position.
HexDigit(message, k) == <<"hex", message, k>>
OtherAscii == <<"ascii", <<0, 0>>, 0>>
NonAscii == <<"nonascii", <<0, 0>>, 0>>

\* hmac.new(secret, message, hashlib.sha256).hexdigest()
hexdigest(message) == [k \in 1..DigestLen |-> HexDigit(message, k)]

\* message = f"{tracking_id}:{timestamp}": the id holds no ':' and the
\* timestamp is an integer, so the text determines both
create_download_signature(tid, t) == hexdigest(<<tid, t>>)

\* a signature value that is no HMAC of any message
Forged == [k \in 1..DigestLen |-> OtherAscii]

\* hmac.compare_digest(a, b) on two str raises TypeError when either holds a
\* character outside ASCII, and otherwise tells whether they are equal
compare_digest_raises(a, b) ==
    \/ \E i \in DOMAIN a : a[i][1] = "nonascii"
    \/ \E i \in DOMAIN b : b[i][1] = "nonascii"

compare_digest(a, b) == a = b

verify_download_signature(tid, t, s) ==
    compare_digest(s, create_download_signature(tid, t))

verify_download_signature_raises(tid, t, s) ==
    compare_digest_raises(s, create_download_signature(tid, t))

\* verify_download_signature as its caller sees it
VerifyOutcome(tid, t, s) ==
    IF verify_download_signature_raises(tid, t, s) THEN "TypeError"
    ELSE IF verify_download_signature(tid, t, s) THEN "True"
    ELSE "False"

\* generate_signed_download_url(base_url, tracking_id): the link issued now
generate_signed_download_url(tid) ==
    [pc |-> "link", tracking_id |-> tid, t |-> now, s |-> create_download_signature(tid, now)]

\* a link is issued
sign_link(tid) ==
    /\ link = NoLink
    /\ pdf = NoPdf
    /\ link' = generate_signed_download_url(tid)
    /\ UNCHANGED <<now, handlers, mail, pdf, dbvars, jobvars, ratevars, resp, histvars>>

\* the signature of a link is verified
verify_link ==
    /\ link.pc = "link"
    /\ link' = [pc |-> "verified", tracking_id |-> link.tracking_id, t |-> link.t, s |-> link.s,
                outcome |-> VerifyOutcome(link.tracking_id, link.t, link.s)]
    /\ UNCHANGED <<now, handlers, mail, pdf, dbvars, jobvars, ratevars, resp, histvars>>

\* An expiry check under which no link ever expires.
link_never_expires(t) == FALSE

is_download_link_expired(t) == (now - t) > LinkExpireSeconds

\* --------------------------------------------------------- rate limiting
\* [t for t in attempts if t > bound]
Recent(attempts, bound) == SelectSeq(attempts, LAMBDA t : t > bound)

RATE_IP == "IP basina dakikada maksimum istek"
RATE_TRACKING == "Bu bordro icin gunluk indirme limiti asildi"

\* check_rate_limit(ip, tracking_id) in server process p: the verdict, the
\* message and the two dictionaries as the call leaves them
check_rate_limit(p, ip, tid) ==
    LET ipl == Recent(by_ip[p][ip], now - MinuteWindow)
        trl == Recent(by_tracking[p][tid], now - DayWindow)
        ips == [by_ip EXCEPT ![p][ip] = ipl]
    IN  IF Len(ipl) >= DOWNLOAD_IP_LIMIT_PER_MINUTE
        THEN [ok |-> FALSE, msg |-> RATE_IP, by_ip |-> ips, by_tracking |-> by_tracking]
        ELSE IF Len(trl) >= DOWNLOAD_TRACKING_LIMIT_PER_DAY
        THEN [ok |-> FALSE, msg |-> RATE_TRACKING, by_ip |-> ips,
              by_tracking |-> [by_tracking EXCEPT ![p][tid] = trl]]
        ELSE [ok |-> TRUE, msg |-> "", by_ip |-> ips,
              by_tracking |-> [by_tracking EXCEPT ![p][tid] = trl]]

\* A recorder that counts the attempt for the address only.
record_attempt_by_ip_only(rl, p, ip, tid) ==
    [by_ip |-> [rl.by_ip EXCEPT ![p][ip] = Append(@, now)],
     by_tracking |-> rl.by_tracking]

\* record_download_attempt(ip, tracking_id), applied to the dictionaries rl
record_download_attempt(rl, p, ip, tid) ==
    [by_ip |-> [rl.by_ip EXCEPT ![p][ip] = Append(@, now)],
     by_tracking |-> [rl.by_tracking EXCEPT ![p][tid] = Append(@, now)]]

Download(code, detail) == [op |-> "download", code |-> code, detail |-> detail]

\* ------------------------------------- GET /tracking/download/{tracking_id}
\* The response of the handler to a request arriving in the current state,
\* in the order of its checks: shape, rate limit, signature, expiry, lookup,
\* path, file.
DownloadResponse(p, ip, tid, t, s) ==
    LET rl == check_rate_limit(p, ip, tid)
        hit == ByTrackingId(tid)
    IN  IF ~validate_tracking_id(tid) THEN Download(400, "Gecersiz indirme linki")
        ELSE IF ~rl.ok THEN Download(429, rl.msg)
        ELSE IF verify_download_signature_raises(tid, t, s)
        THEN Download(500, "Internal Server Error")
        ELSE IF ~verify_download_signature(tid, t, s)
        THEN Download(403, "Gecersiz indirme linki")
        ELSE IF is_download_link_expired(t)
        THEN Download(410, "Indirme linkinin suresi dolmus")
        ELSE IF hit = {} THEN Download(404, "Bordro bulunamadi")
        ELSE LET d == CHOOSE x \in hit : TRUE IN
             IF sanitize_path(payslips[d].pdf_path, PDF_OUTPUT_DIR) = NoPath
             THEN Download(403, "Dosyaya erisim reddedildi")
             ELSE IF sanitize_path(payslips[d].pdf_path, PDF_OUTPUT_DIR) \notin files
             THEN Download(404, "PDF dosyasi bulunamadi")
             ELSE Download(200, "FileResponse")

\* A handler that records the download before it checks the request.
track_download_event_first(p, ip, tid, t, s) ==
    /\ resp' = DownloadResponse(p, ip, tid, t, s)
    /\ events' = [d \in DocIds |->
                     IF d \in ByTrackingId(tid)
                     THEN [events[d] EXCEPT !.downloaded = @ + 1] ELSE events[d]]
    /\ UNCHANGED <<now, handlers, mail, link, pdf, smtp, payslips, files, nextId,
                   jobvars, ratevars, histvars>>

\* The whole handler, for a request served without interleaving.
track_download(p, ip, tid, t, s) ==
    LET rl == check_rate_limit(p, ip, tid)
        r == DownloadResponse(p, ip, tid, t, s)
    IN  /\ resp' = r
        /\ IF r.code = 400
           THEN UNCHANGED <<now, handlers, mail, link, pdf, dbvars, jobvars, ratevars, histvars>>
           ELSE IF r.code = 429
           THEN /\ by_ip' = rl.by_ip
                /\ by_tracking' = rl.by_tracking
                /\ UNCHANGED <<now, handlers, mail, link, pdf, dbvars, jobvars, histvars>>
           ELSE /\ Len(passed[ip]) < MaxPassed
                /\ passed' = [passed EXCEPT ![ip] = Append(@, now)]
                /\ UNCHANGED <<now, handlers, mail, link, pdf, smtp, files, nextId, jobvars, pixel_seq, pixels, sends>>
                /\ IF r.code # 200
                   THEN /\ by_ip' = rl.by_ip
                        /\ by_tracking' = rl.by_tracking
                        /\ UNCHANGED <<payslips, events, served, servedIp>>
                   ELSE LET d == CHOOSE x \in ByTrackingId(tid) : TRUE IN
                        /\ events' = [events EXCEPT ![d].downloaded = @ + 1]
                        /\ payslips' = [payslips EXCEPT ![d].status =
                                           IF @ \in {SENT, OPENED} THEN DOWNLOADED ELSE @]
                        /\ by_ip' = record_download_attempt(rl, p, ip, tid).by_ip
                        /\ by_tracking' = record_download_attempt(rl, p, ip, tid).by_tracking
                        /\ served' = [served EXCEPT ![tid] = Append(@, now)]
                        /\ servedIp' = [servedIp EXCEPT ![ip] = Append(@, now)]

\* ------------------------------------ track_download, handled concurrently
\* The coroutine is split at its suspension points:
\*   dl_check   format, rate limit, signature and expiry checks, up to the
\*              payslip query
\*   dl_select  the query result, the path checks, the event and the status
\*              assignment, up to db.commit()
\*   dl_commit  the commit, record_download_attempt and the file response
dl_check(h, p, ip, tid, t, s) ==
    LET rl == check_rate_limit(p, ip, tid)
    IN  /\ handlers[h] = Idle
        /\ IF ~validate_tracking_id(tid)
           THEN /\ resp' = Download(400, "Gecersiz indirme linki")
                /\ UNCHANGED <<handlers, ratevars, passed>>
           ELSE IF ~rl.ok
           THEN /\ resp' = Download(429, rl.msg)
                /\ by_ip' = rl.by_ip
                /\ by_tracking' = rl.by_tracking
                /\ UNCHANGED <<handlers, passed>>
           ELSE /\ Len(passed[ip]) < MaxPassed
                /\ passed' = [passed EXCEPT ![ip] = Append(@, now)]
                /\ by_ip' = rl.by_ip
                /\ by_tracking' = rl.by_tracking
                /\ IF verify_download_signature_raises(tid, t, s)
                   THEN /\ resp' = Download(500, "Internal Server Error")
                        /\ UNCHANGED handlers
                   ELSE IF ~verify_download_signature(tid, t, s)
                   THEN /\ resp' = Download(403, "Gecersiz indirme linki")
                        /\ UNCHANGED handlers
                   ELSE IF is_download_link_expired(t)
                   THEN /\ resp' = Download(410, "Indirme linkinin suresi dolmus")
                        /\ UNCHANGED handlers
                   ELSE /\ handlers' = [handlers EXCEPT ![h] =
                               [pc |-> "select", proc |-> p, ip |-> ip, tid |-> tid]]
                        /\ UNCHANGED resp
        /\ UNCHANGED <<now, mail, link, pdf, dbvars, jobvars, pixel_seq, pixels, sends, served, servedIp>>

dl_select(h) ==
    LET w == handlers[h]
        hit == ByTrackingId(w.tid)
        d == CHOOSE x \in hit : TRUE
    IN  /\ w.pc = "select"
        /\ IF hit = {}
           THEN /\ resp' = Download(404, "Bordro bulunamadi")
                /\ handlers' = [handlers EXCEPT ![h] = Idle]
           ELSE IF sanitize_path(payslips[d].pdf_path, PDF_OUTPUT_DIR) = NoPath
           THEN /\ resp' = Download(403, "Dosyaya erisim reddedildi")
                /\ handlers' = [handlers EXCEPT ![h] = Idle]
           ELSE IF sanitize_path(payslips[d].pdf_path, PDF_OUTPUT_DIR) \notin files
           THEN /\ resp' = Download(404, "PDF dosyasi bulunamadi")
                /\ handlers' = [handlers EXCEPT ![h] = Idle]
           ELSE /\ handlers' = [handlers EXCEPT ![h] =
                       [pc |-> "commit", proc |-> w.proc, ip |-> w.ip, tid |-> w.tid,
                        payslip |-> d, loaded |-> payslips[d].status]]
                /\ UNCHANGED resp
        /\ UNCHANGED <<now, mail, link, pdf, dbvars, jobvars, ratevars, histvars>>

dl_commit(h) ==
    LET w == handlers[h]
        d == w.payslip
        rl == [by_ip |-> by_ip, by_tracking |-> by_tracking]
    IN  /\ w.pc = "commit"
        /\ handlers' = [handlers EXCEPT ![h] = Idle]
        /\ IF ~Exists(d)
           THEN \* the row is gone: the flush fails and the request ends in an error
                /\ resp' = Download(500, "Internal Server Error")
                /\ UNCHANGED <<dbvars, ratevars, served, servedIp>>
           ELSE /\ events' = [events EXCEPT ![d].downloaded = @ + 1]
                /\ payslips' = [payslips EXCEPT ![d].status =
                                   IF w.loaded \in {SENT, OPENED} THEN DOWNLOADED ELSE @]
                /\ by_ip' = record_download_attempt(rl, w.proc, w.ip, w.tid).by_ip
                /\ by_tracking' = record_download_attempt(rl, w.proc, w.ip, w.tid).by_tracking
                /\ served' = [served EXCEPT ![w.tid] = Append(@, now)]
                /\ servedIp' = [servedIp EXCEPT ![w.ip] = Append(@, now)]
                /\ resp' = Download(200, "FileResponse")
                /\ UNCHANGED <<smtp, files, nextId>>
        /\ UNCHANGED <<now, mail, link, pdf, jobvars, pixel_seq, pixels, sends, passed>>

\* ---------------------------------------- track_open, handled concurrently
\* The coroutine is split at its suspension points:
\*   px_select  the format check and the payslip query
\*   px_commit  the event, the status assignment and db.commit()
px_select(h, tid, ip) ==
    /\ handlers[h] = Idle
    /\ pixel_seq' = 1 - pixel_seq
    /\ IF validate_tracking_id(tid) /\ ByTrackingId(tid) # {}
       THEN LET d == CHOOSE x \in ByTrackingId(tid) : TRUE IN
            /\ pixels[d] < MaxOpens
            /\ pixels' = [pixels EXCEPT ![d] = @ + 1]
            /\ handlers' = [handlers EXCEPT ![h] =
                   [pc |-> "px_commit", payslip |-> d, loaded |-> payslips[d].status]]
            /\ UNCHANGED resp
       ELSE /\ resp' = PixelResponse
            /\ UNCHANGED <<handlers, pixels>>
    /\ UNCHANGED <<now, mail, link, pdf, dbvars, jobvars, ratevars, sends, served, servedIp, passed>>

px_commit(h) ==
    LET w == handlers[h]
        d == w.payslip
    IN  /\ w.pc = "px_commit"
        /\ handlers' = [handlers EXCEPT ![h] = Idle]
        /\ IF ~Exists(d)
           THEN \* the row is gone: the insert of the event fails
                /\ resp' = [op |-> "pixel", code |-> 500, body |-> "Internal Server Error"]
                /\ UNCHANGED dbvars
           ELSE /\ events' = [events EXCEPT ![d].opened = @ + 1]
                /\ payslips' = [payslips EXCEPT ![d].status =
                                   IF w.loaded = SENT THEN OPENED ELSE @]
                /\ resp' = PixelResponse
                /\ UNCHANGED <<smtp, files, nextId>>
        /\ UNCHANGED <<now, mail, link, pdf, jobvars, ratevars, histvars>>

\* ------------------------------------------------------------------ clock
\* the instants the clock visits: around the one-minute and the 24-hour
\* windows that start at T0
Offsets == {0, 60, 86400}
Instants == {T0 + k : k \in Offsets}

\* The logs kept for the windowed counts forget what has left their window.
Tick(t) ==
    /\ t > now
    /\ now' = t
    /\ served' = [x \in TrackingIds |-> Recent(served[x], t - DayWindow)]
    /\ servedIp' = [i \in IPs |-> Recent(servedIp[i], t - MinuteWindow)]
    /\ passed' = [i \in IPs |-> Recent(passed[i], t - MinuteWindow)]
    /\ UNCHANGED <<handlers, mail, link, pdf, dbvars, jobvars, ratevars, resp, pixel_seq, pixels, sends>>

\* ------------------------------------------------------- specifications
\* Spec: the life of one Document of the administered tenant inside one
\* minute: bulk-send jobs one after the other, pixel and download requests.
Next ==
    \/ \E u \in Admins : update_smtp_settings(u, TRUE)
    \/ \E u \in Admins, emp \in {"ok", "none"}, n \in FileNames :
          nextId = 1 /\ upload_pdf(u, emp, n)
    \/ \E u \in Admins, d \in DocIds : delete_payslip(u, d)
    \/ \E tid \in Requestable : track_open(tid, "ipA")
    \/ \E u \in Admins, ids \in {<<>>, <<1>>}, f \in BOOLEAN :
          (\A j \in JobIds : worker[j] = NoWorker) /\ start_send_job(u, ids, f)
    \/ \E j \in JobIds : job_run(j)
    \/ \E j \in JobIds : job_load(j)
    \/ \E j \in JobIds, tr \in Transport : job_item(j, tr)
    \/ \E j \in JobIds : job_commit(j)
    \/ \E tid \in Requestable :
          track_download(1, "ipA", tid, T0, create_download_signature(tid, T0))

Spec == Init /\ [][Next]_vars

\* SpecBulk: bulk-send requests over two Documents of two tenants.
NextBulk ==
    \/ \E u \in Admins, b \in BOOLEAN : update_smtp_settings(u, b)
    \/ \E u \in Users, emp \in {"ok", "none"}, n \in FileNames :
          (u \in Admins \/ emp = "ok") /\ upload_pdf(u, emp, n)
    \/ \E u \in Users, ids \in {<<>>, <<1>>, <<2>>, <<1, 2>>}, f \in BOOLEAN :
          jobs[1] = NoRow /\ start_send_job(u, ids, f)
    \/ \E j \in JobIds : job_run(j)
    \/ \E j \in JobIds : job_load(j)
    \/ \E j \in JobIds, tr \in Transport : job_item(j, tr)
    \/ \E j \in JobIds : job_commit(j)
    \/ \E u \in Users, ids \in SUBSET DocIds, f \in BOOLEAN :
          \E tr \in [Matching(ids, CompanyOf(u)) -> Transport] : send_payslips(u, ids, f, tr)
    \/ \E u \in Users, ids \in SUBSET DocIds, f \in BOOLEAN :
          \E tr \in [Matching(ids, CompanyOf(u)) -> Transport] :
             send_payslips_with_report(u, ids, f, tr)

SpecBulk == Init /\ [][NextBulk]_vars

\* SpecGuard: the download endpoint of one server process, one request at a
\* time, with the clock advancing.  It starts where one Document of tenant 1
\* has been uploaded and mailed at T0.
SentRow ==
    [company_id |-> 1, employee |-> "ok", pdf_path |-> OutputPath(1, "a.pdf"), tracking_id |-> 1,
     status |-> SENT, sent_at |-> T0, sent_by |-> 1, send_error |-> None]

InitGuard ==
    /\ now = T0
    /\ smtp = [c \in Companies |-> c \in Admins]
    /\ payslips = [d \in DocIds |-> IF d = 1 THEN SentRow ELSE NoRow]
    /\ events = [d \in DocIds |-> IF d = 1 THEN [NoEvents EXCEPT !.sent = 1] ELSE NoEvents]
    /\ files = {OutputPath(1, "a.pdf")}
    /\ nextId = 2
    /\ jobs = [j \in JobIds |-> NoRow]
    /\ worker = [j \in JobIds |-> NoWorker]
    /\ by_ip = [p \in Procs |-> [i \in IPs |-> <<>>]]
    /\ by_tracking = [p \in Procs |-> [t \in TrackingIds |-> <<>>]]
    /\ handlers = [h \in Handlers |-> Idle]
    /\ mail = NoMail
    /\ link = NoLink
    /\ pdf = NoPdf
    /\ resp = [op |-> "send_payslips", code |-> 200, success_count |-> 1]
    /\ pixel_seq = 0
    /\ pixels = [d \in DocIds |-> 0]
    /\ sends = [d \in DocIds |-> IF d = 1 THEN 1 ELSE 0]
    /\ served = [t \in TrackingIds |-> <<>>]
    /\ servedIp = [i \in IPs |-> <<>>]
    /\ passed = [i \in IPs |-> <<>>]

\* the issue times a request may carry: long ago, exactly one validity
\* window before T0, and T0
ReqTimes == {0, T0 - LinkExpireSeconds, T0}

NextGuard ==
    \/ \E t \in Instants : Tick(t)
    \/ \E ip \in {"ipA", "ipB"}, tid \in {1, UnknownTid, MalformedTid}, t \in ReqTimes :
          \E s \in {create_download_signature(tid, t), Forged} :
             track_download(1, ip, tid, t, s)

SpecGuard == InitGuard /\ [][NextGuard]_vars

\* SpecPath: the download endpoint where the stored path of the mailed
\* Document is any of a range of paths: below the output directory, the
\* directory itself, beside it, outside it, relative, with "..", "~" or an
\* empty string.  Every file a stored path resolves to is on disk.
StoredPaths ==
    { OutputPath(1, "a.pdf"),
      PDF_OUTPUT_DIR \o <<"1", "a..pdf">>,
      PDF_OUTPUT_DIR \o <<"1", ".", "a.pdf">>,
      PDF_OUTPUT_DIR \o <<"1", "..", "1", "a.pdf">>,
      PDF_OUTPUT_DIR \o <<"..", "secret.pdf">>,
      PDF_OUTPUT_DIR,
      <<"/", "app", "uploads", "pdfs_old", "a.pdf">>,
      <<"/", "app", "uploads", "secret.pdf">>,
      <<"/", "etc", "passwd">>,
      <<"/">>,
      <<"uploads", "pdfs", "1", "a.pdf">>,
      <<"uploads", "secret.pdf">>,
      <<"..", "etc", "passwd">>,
      <<"~", "a.pdf">>,
      <<>> }

InitPath ==
    /\ now = T0
    /\ smtp = [c \in Companies |-> c \in Admins]
    /\ \E path \in StoredPaths :
          payslips = [d \in DocIds |-> IF d = 1 THEN [SentRow EXCEPT !.pdf_path = path]
                                       ELSE NoRow]
    /\ events = [d \in DocIds |-> IF d = 1 THEN [NoEvents EXCEPT !.sent = 1] ELSE NoEvents]
    /\ files = {abspath(q) : q \in StoredPaths \ {<<>>, <<"/">>, PDF_OUTPUT_DIR}}
    /\ nextId = 2
    /\ jobs = [j \in JobIds |-> NoRow]
    /\ worker = [j \in JobIds |-> NoWorker]
    /\ by_ip = [p \in Procs |-> [i \in IPs |-> <<>>]]
    /\ by_tracking = [p \in Procs |-> [t \in TrackingIds |-> <<>>]]
    /\ handlers = [h \in Handlers |-> Idle]
    /\ mail = NoMail
    /\ link = NoLink
    /\ pdf = NoPdf
    /\ resp = [op |-> "send_payslips", code |-> 200, success_count |-> 1]
    /\ pixel_seq = 0
    /\ pixels = [d \in DocIds |-> 0]
    /\ sends = [d \in DocIds |-> IF d = 1 THEN 1 ELSE 0]
    /\ served = [t \in TrackingIds |-> <<>>]
    /\ servedIp = [i \in IPs |-> <<>>]
    /\ passed = [i \in IPs |-> <<>>]

NextPath ==
    \/ \E t \in Instants : Tick(t)
    \/ \E tid \in {1, UnknownTid, MalformedTid}, t \in {0, T0} :
          \E s \in {create_download_signature(tid, t), Forged} :
             track_download(1, "ipA", tid, t, s)

SpecPath == InitPath /\ [][NextPath]_vars

\* SpecJob: bulk-send jobs of one tenant over two Documents whose employees
\* are of every kind, with uploads and deletions going on beside the jobs.
\* It starts where SMTP is configured and the first Document is uploaded.
RequestLists == UNION {Orders(S) : S \in SUBSET DocIds}

InitJob ==
    /\ now = T0
    /\ handlers = [h \in Handlers |-> Idle]
    /\ mail = NoMail
    /\ link = NoLink
    /\ pdf = NoPdf
    /\ smtp = [c \in Companies |-> c \in Admins]
    /\ \E emp \in EmployeeKinds :
          payslips = [d \in DocIds |->
                         IF d = 1
                         THEN [company_id |-> 1, employee |-> emp, pdf_path |-> OutputPath(1, "a.pdf"),
                               tracking_id |-> 1,
                               status |-> IF emp # "none" THEN PENDING ELSE NO_EMPLOYEE,
                               sent_at |-> Null, sent_by |-> Null, send_error |-> None]
                         ELSE NoRow]
    /\ events = [d \in DocIds |-> NoEvents]
    /\ files = {OutputPath(1, "a.pdf")}
    /\ nextId = 2
    /\ jobs = [j \in JobIds |-> NoRow]
    /\ worker = [j \in JobIds |-> NoWorker]
    /\ by_ip = [p \in Procs |-> [i \in IPs |-> <<>>]]
    /\ by_tracking = [p \in Procs |-> [t \in TrackingIds |-> <<>>]]
    /\ resp = [op |-> "none"]
    /\ pixel_seq = 0
    /\ pixels = [d \in DocIds |-> 0]
    /\ sends = [d \in DocIds |-> 0]
    /\ served = [t \in TrackingIds |-> <<>>]
    /\ servedIp = [i \in IPs |-> <<>>]
    /\ passed = [i \in IPs |-> <<>>]

NextJob ==
    \/ \E u \in Admins, emp \in EmployeeKinds, n \in FileNames : upload_pdf(u, emp, n)
    \/ \E u \in Admins, d \in DocIds : delete_payslip(u, d)
    \/ \E u \in Admins, ids \in RequestLists, f \in BOOLEAN :
          (\A j \in JobIds : worker[j] = NoWorker) /\ start_send_job(u, ids, f)
    \/ \E j \in JobIds : job_run(j)
    \/ \E j \in JobIds : job_load(j)
    \/ \E j \in JobIds, tr \in Courses : job_item(j, tr)
    \/ \E j \in JobIds : job_commit(j)

SpecJob == InitJob /\ [][NextJob]_vars

\* SpecJobLive: the jobs of SpecJob over Documents of employees that can be
\* mailed, where the event loop keeps running a background task: a
\* coroutine of process_mail_job that can resume (its awaited call has
\* returned or timed out) is resumed.
InitJobLive == InitJob /\ payslips[1].employee = "ok"

NextJobLive ==
    \/ \E u \in Admins, n \in FileNames : upload_pdf(u, "ok", n)
    \/ \E u \in Admins, d \in DocIds : delete_payslip(u, d)
    \/ \E u \in Admins, ids \in RequestLists, f \in BOOLEAN :
          (\A j \in JobIds : worker[j] = NoWorker) /\ start_send_job(u, ids, f)
    \/ \E j \in JobIds : job_run(j)
    \/ \E j \in JobIds : job_load(j)
    \/ \E j \in JobIds, tr \in Transport : job_item(j, tr)
    \/ \E j \in JobIds : job_commit(j)

\* the next step of the coroutine of job j
process_mail_job(j) ==
    \/ job_run(j)
    \/ job_load(j)
    \/ \E tr \in Transport : job_item(j, tr)
    \/ job_commit(j)

SpecJobLive ==
    /\ InitJobLive
    /\ [][NextJobLive]_vars
    /\ \A j \in JobIds : WF_vars(process_mail_job(j))

\* SpecJobs2: bulk-send jobs without force_resend, started while others
\* run, over Documents of employees that can be mailed, with a transport
\* that accepts every message.
NextJobs2 ==
    \/ \E u \in Admins, n \in FileNames : upload_pdf(u, "ok", n)
    \/ \E u \in Admins, ids \in RequestLists : start_send_job(u, ids, FALSE)
    \/ \E j \in JobIds : job_run(j)
    \/ \E j \in JobIds : job_load(j)
    \/ \E j \in JobIds : job_item(j, Always("ok"))
    \/ \E j \in JobIds : job_commit(j)

SpecJobs2 == InitJobLive /\ [][NextJobs2]_vars

\* SpecMail: one call of send_payslip_email, for every course its attempts
\* can take.
InitMail ==
    /\ now = T0
    /\ handlers = [h \in Handlers |-> Idle]
    /\ mail \in MailCalls
    /\ link = NoLink
    /\ pdf = NoPdf
    /\ smtp = [c \in Companies |-> c \in Admins]
    /\ payslips = [d \in DocIds |-> NoRow]
    /\ events = [d \in DocIds |-> NoEvents]
    /\ files = {}
    /\ nextId = 1
    /\ jobs = [j \in JobIds |-> NoRow]
    /\ worker = [j \in JobIds |-> NoWorker]
    /\ by_ip = [p \in Procs |-> [i \in IPs |-> <<>>]]
    /\ by_tracking = [p \in Procs |-> [t \in TrackingIds |-> <<>>]]
    /\ resp = [op |-> "none"]
    /\ pixel_seq = 0
    /\ pixels = [d \in DocIds |-> 0]
    /\ sends = [d \in DocIds |-> 0]
    /\ served = [t \in TrackingIds |-> <<>>]
    /\ servedIp = [i \in IPs |-> <<>>]
    /\ passed = [i \in IPs |-> <<>>]

NextMail == mail_attempt

SpecMail == InitMail /\ [][NextMail]_vars

\* SpecConn: the send loop of one job over up to MaxItems Documents with
\* usable recipients, attempt by attempt, and the connection it keeps.
InitConn ==
    /\ now = T0
    /\ handlers = [h \in Handlers |-> Idle]
    /\ mail \in {SendLoop(n) : n \in 1..MaxItems}
    /\ link = NoLink
    /\ pdf = NoPdf
    /\ smtp = [c \in Companies |-> c \in Admins]
    /\ payslips = [d \in DocIds |-> NoRow]
    /\ events = [d \in DocIds |-> NoEvents]
    /\ files = {}
    /\ nextId = 1
    /\ jobs = [j \in JobIds |-> NoRow]
    /\ worker = [j \in JobIds |-> NoWorker]
    /\ by_ip = [p \in Procs |-> [i \in IPs |-> <<>>]]
    /\ by_tracking = [p \in Procs |-> [t \in TrackingIds |-> <<>>]]
    /\ resp = [op |-> "none"]
    /\ pixel_seq = 0
    /\ pixels = [d \in DocIds |-> 0]
    /\ sends = [d \in DocIds |-> 0]
    /\ served = [t \in TrackingIds |-> <<>>]
    /\ servedIp = [i \in IPs |-> <<>>]
    /\ passed = [i \in IPs |-> <<>>]

NextConn ==
    \/ \E alive \in BOOLEAN, survives \in BOOLEAN,
          out \in {"nofile", "connect_fail", "login_fail",
                   "send_rate", "send_smtp", "send_other", "ok"} :
          send_attempt(alive, out, survives)
    \/ close_connection

SpecConn == InitConn /\ [][NextConn]_vars

\* SpecSign: links for two Documents and two timestamps.  A link is issued by
\* the program, or arrives with a signature that is the genuine one, the one
\* of another link, or the genuine one with a character replaced, dropped or
\* added.
SignIds == {1, 2}
SignTimes == {T0 - 1, T0}
SignMessages == {<<i, u>> : i \in SignIds, u \in SignTimes}

Altered(g) ==
    {[g EXCEPT ![k] = c] :
        k \in 1..DigestLen,
        c \in {OtherAscii, NonAscii} \cup {HexDigit(m, j) : m \in SignMessages, j \in 1..DigestLen}}
    \cup {SubSeq(g, 1, DigestLen - 1), Append(g, OtherAscii), Append(g, NonAscii), <<>>}

ArrivingLinks ==
    {[pc |-> "link", tracking_id |-> i, t |-> u, s |-> s] :
        i \in SignIds, u \in SignTimes,
        s \in {create_download_signature(m[1], m[2]) : m \in SignMessages} \cup {Forged}}
    \cup UNION {{[pc |-> "link", tracking_id |-> m[1], t |-> m[2], s |-> s] :
                    s \in Altered(create_download_signature(m[1], m[2]))} : m \in SignMessages}

InitSign ==
    /\ now = T0
    /\ handlers = [h \in Handlers |-> Idle]
    /\ mail = NoMail
    /\ link \in {NoLink} \cup ArrivingLinks
    /\ pdf = NoPdf
    /\ smtp = [c \in Companies |-> c \in Admins]
    /\ payslips = [d \in DocIds |-> NoRow]
    /\ events = [d \in DocIds |-> NoEvents]
    /\ files = {}
    /\ nextId = 1
    /\ jobs = [j \in JobIds |-> NoRow]
    /\ worker = [j \in JobIds |-> NoWorker]
    /\ by_ip = [p \in Procs |-> [i \in IPs |-> <<>>]]
    /\ by_tracking = [p \in Procs |-> [t \in TrackingIds |-> <<>>]]
    /\ resp = [op |-> "none"]
    /\ pixel_seq = 0
    /\ pixels = [d \in DocIds |-> 0]
    /\ sends = [d \in DocIds |-> 0]
    /\ served = [t \in TrackingIds |-> <<>>]
    /\ servedIp = [i \in IPs |-> <<>>]
    /\ passed = [i \in IPs |-> <<>>]

NextSign ==
    \/ \E tid \in SignIds : sign_link(tid)
    \/ verify_link

SpecSign == InitSign /\ [][NextSign]_vars

\* SpecPdf: one upload, by a user of either tenant, of every file of up to
\* MaxPages pages, into an empty payslips table.
InitPdf ==
    /\ now = T0
    /\ handlers = [h \in Handlers |-> Idle]
    /\ mail = NoMail
    /\ link = NoLink
    /\ pdf = NoPdf
    /\ smtp = [c \in Companies |-> c \in Admins]
    /\ payslips = [d \in DocIds |-> NoRow]
    /\ events = [d \in DocIds |-> NoEvents]
    /\ files = {}
    /\ nextId = 1
    /\ jobs = [j \in JobIds |-> NoRow]
    /\ worker = [j \in JobIds |-> NoWorker]
    /\ by_ip = [p \in Procs |-> [i \in IPs |-> <<>>]]
    /\ by_tracking = [p \in Procs |-> [t \in TrackingIds |-> <<>>]]
    /\ resp = [op |-> "none"]
    /\ pixel_seq = 0
    /\ pixels = [d \in DocIds |-> 0]
    /\ sends = [d \in DocIds |-> 0]
    /\ served = [t \in TrackingIds |-> <<>>]
    /\ servedIp = [i \in IPs |-> <<>>]
    /\ passed = [i \in IPs |-> <<>>]

NextPdf ==
    /\ pdf = NoPdf
    /\ \E u \in Users, file \in PdfFiles : upload_pdf_pages(u, file)

SpecPdf == InitPdf /\ [][NextPdf]_vars

\* SpecConc: download requests for the mailed Document handled concurrently
\* by the coroutines of one or two server processes, inside one minute.
NextConc ==
    \/ \E h \in Handlers, p \in Procs, ip \in {"ipA", "ipB"} :
          dl_check(h, p, ip, 1, T0, create_download_signature(1, T0))
    \/ \E h \in Handlers : dl_select(h)
    \/ \E h \in Handlers : dl_commit(h)

SpecConc == InitGuard /\ [][NextConc]_vars

\* SpecRace: pixel and download requests for the mailed Document handled
\* concurrently by the coroutines of one server process.
NextRace ==
    \/ \E h \in Handlers : px_select(h, 1, "ipA")
    \/ \E h \in Handlers : px_commit(h)
    \/ \E h \in Handlers : dl_check(h, 1, "ipA", 1, T0, create_download_signature(1, T0))
    \/ \E h \in Handlers : dl_select(h)
    \/ \E h \in Handlers : dl_commit(h)

SpecRace == InitGuard /\ [][NextRace]_vars

\* =================================================================== claims

\* ---- C1
Regresses(old, new) ==
    \/ old \in {OPENED, DOWNLOADED} /\ new \in {PENDING, SENT, FAILED}
    \/ old = DOWNLOADED /\ new = OPENED
    \/ new = FAILED /\ old \notin {PENDING, SENT, FAILED}

\* C1: over bulk-send jobs (with or without force_resend), pixel requests and
\* download requests, the status of a Document never regresses: OPENED or
\* DOWNLOADED never becomes PENDING, SENT or FAILED, DOWNLOADED never becomes
\* OPENED, and FAILED is entered only from PENDING, SENT or FAILED.
C1_StatusNeverRegresses ==
    [][\A d \in DocIds :
          (payslips[d] # NoRow /\ payslips'[d] # NoRow)
             => ~Regresses(payslips[d].status, payslips'[d].status)]_vars

\* ---- C2
\* C2: N pixel requests for the tracking id of an existing Document append
\* exactly N OPENED events; a request changes the status only when it is
\* SENT, and then to OPENED, so that after a request the status is not SENT
\* and the requests that follow it leave the status as it is.
C2_PixelCountsOpens ==
    /\ [](\A d \in DocIds : payslips[d] # NoRow => events[d].opened = pixels[d])
    /\ [][\A d \in DocIds :
             pixels'[d] = pixels[d] + 1
                => /\ events'[d].opened = events[d].opened + 1
                   /\ payslips'[d].status =
                         IF payslips[d].status = SENT THEN OPENED ELSE payslips[d].status
                   /\ payslips'[d].status # SENT]_vars

\* two pixel requests for a mailed Document: two events, status OPENED
C2_Witness ==
    \E d \in DocIds :
       /\ payslips[d] # NoRow
       /\ pixels[d] = 2
       /\ events[d].opened = 2
       /\ payslips[d].status = OPENED

AlreadyDelivered == {SENT, OPENED, DOWNLOADED}

\* C10: in a job run without force_resend, an item whose Document is SENT,
\* OPENED or DOWNLOADED gets no send attempt, is counted as one success, and
\* its status, send metadata and events are left as they are.
C10_JobSkipsDelivered ==
    [][\A j \in JobIds :
          (/\ worker[j].pc = "loop"
           /\ worker'[j].pc = "loop"
           /\ worker'[j].idx = worker[j].idx + 1
           /\ ~worker[j].force_resend
           /\ RecipientError(worker[j].session[worker[j].items[worker[j].idx]]) = None
           /\ worker[j].session[worker[j].items[worker[j].idx]].status \in AlreadyDelivered)
             => /\ sends' = sends
                /\ worker'[j].session = worker[j].session
                /\ worker'[j].added = worker[j].added
                /\ jobs'[j].success_count = jobs[j].success_count + 1
                /\ jobs'[j].error_count = jobs[j].error_count]_vars

\* ---- C3
\* the signatures a request may carry for (tid, t): the server's, or a forged one
Signatures(tid, t) == {create_download_signature(tid, t), Forged}
WellFormed == TrackingIds \ {MalformedTid}

ValidLink == create_download_signature(1, T0)

\* C4: with requests handled one at a time, at most
\* DOWNLOAD_TRACKING_LIMIT_PER_DAY downloads of one tracking id are served in
\* any 24 hours, over all addresses; a valid request under both ceilings is
\* served; and once the per-id ceiling is reached a valid request from an
\* address never seen before is answered 429.
C4_PerIdCeiling ==
    /\ \A tid \in TrackingIds : Len(served[tid]) <= DOWNLOAD_TRACKING_LIMIT_PER_DAY
    /\ \A ip \in IPs :
          (/\ Len(servedIp[ip]) < DOWNLOAD_IP_LIMIT_PER_MINUTE
           /\ Len(served[1]) < DOWNLOAD_TRACKING_LIMIT_PER_DAY)
             => DownloadResponse(1, ip, 1, T0, ValidLink).code = 200
    /\ (Len(served[1]) >= DOWNLOAD_TRACKING_LIMIT_PER_DAY /\ passed["ipC"] = <<>>)
          => DownloadResponse(1, "ipC", 1, T0, ValidLink).code = 429

\* six downloads served within the day, and a request of an address under
\* its own ceiling has just been refused for the id
C4_Witness ==
    /\ Len(served[1]) = DOWNLOAD_TRACKING_LIMIT_PER_DAY
    /\ resp = Download(429, RATE_TRACKING)
    /\ \E ip \in IPs : servedIp[ip] = <<>>

\* ---- C5
\* C5: in any 60 seconds at most DOWNLOAD_IP_LIMIT_PER_MINUTE download
\* requests with a well-formed id from one address get past the rate-limit
\* check, whatever their later outcome.
C5_PerAddressBoundsRequests ==
    \A ip \in IPs : Len(passed[ip]) <= DOWNLOAD_IP_LIMIT_PER_MINUTE

\* ---- C6
\* C6: however concurrent download requests interleave, in one server
\* process or in several, no more downloads are served in a window than the
\* ceilings allow: per address and minute, per tracking id and day.
C6_CeilingsUnderConcurrency ==
    /\ \A ip \in IPs : Len(servedIp[ip]) <= DOWNLOAD_IP_LIMIT_PER_MINUTE
    /\ \A tid \in TrackingIds : Len(served[tid]) <= DOWNLOAD_TRACKING_LIMIT_PER_DAY

\* ---- C7
ValidationFailures == {400, 403, 410, 429}

\* C7: a download request that fails validation gets the same status code
\* and message whether or not a Document with its tracking id exists.  Id 1
\* is that of the existing Document with its download history; the
\* never-issued id stands for the same request when no such Document exists.
C7_NoExistenceLeak ==
    \A ip \in IPs, t \in ReqTimes, signed \in BOOLEAN :
       LET existing == DownloadResponse(1, ip, 1, t,
                          IF signed THEN create_download_signature(1, t) ELSE Forged)
           absent == DownloadResponse(1, ip, UnknownTid, t,
                          IF signed THEN create_download_signature(UnknownTid, t) ELSE Forged)
       IN  existing.code \in ValidationFailures
              => (existing.code = absent.code /\ existing.detail = absent.detail)

\* ---- C9
\* C9: a bulk-send request with force_resend=false that names at least one
\* SENT Document of the caller's tenant is answered 409 with exactly the ids
\* of those Documents, by every bulk-send endpoint; and a 409 creates no job,
\* sends no mail and changes no Document.
C9_ConflictRejected ==
    /\ [](\A u \in Users, ids \in SUBSET DocIds :
             LET conflict == AlreadySent(Matching(ids, CompanyOf(u)))
             IN  conflict # {}
                    => \A r \in {SendCheck(u, ids, FALSE), ReportCheck(u, ids, FALSE)} :
                          r.code = 409 /\ r.already_sent_ids = conflict)
    /\ [][(resp' # resp /\ resp'.op = "send" /\ resp'.code = 409)
             => UNCHANGED <<dbvars, jobvars, sends>>]_vars

\* ---- C11
\* employees to whom nothing can be delivered: none resolved, inactive, no address
Undeliverable == {"none", "inactive", "noemail"}

\* the item a job's loop is at, and the payslip object the session holds for it
CurrentItem(j) == worker[j].items[worker[j].idx]
CurrentRow(j) == worker[j].session[CurrentItem(j)]

\* job j handles one item in this step
ItemStep(j) ==
    /\ worker[j].pc = "loop"
    /\ worker'[j].pc = "loop"
    /\ worker'[j].idx = worker[j].idx + 1

\* C11: in a job, a Document with no resolved employee, an inactive employee
\* or an employee without address gets no send attempt; it is recorded as one
\* failed item with a reason, the payslip is left as it is and the job goes on
\* to the next item; no step changes such a Document, so a NO_EMPLOYEE
\* Document stays NO_EMPLOYEE through any number of jobs.
C11_UndeliverableItemFails ==
    /\ [][\A j \in JobIds :
             (ItemStep(j) /\ CurrentRow(j).employee \in Undeliverable)
                => /\ sends' = sends
                   /\ worker'[j].session = worker[j].session
                   /\ worker'[j].added = worker[j].added
                   /\ jobs'[j].completed = jobs[j].completed + 1
                   /\ jobs'[j].error_count = jobs[j].error_count + 1
                   /\ jobs'[j].success_count = jobs[j].success_count
                   /\ jobs'[j].results =
                         Append(jobs[j].results,
                                [payslip_id |-> CurrentItem(j), success |-> FALSE,
                                 error |-> jobs'[j].results[Len(jobs'[j].results)].error])
                   /\ jobs'[j].results[Len(jobs'[j].results)].error # None]_vars
    /\ [][\A d \in DocIds :
             (/\ payslips[d] # NoRow
              /\ payslips'[d] # NoRow
              /\ payslips[d].employee \in Undeliverable)
                => /\ payslips'[d] = payslips[d]
                   /\ events'[d] = events[d]
                   /\ sends'[d] = sends[d]]_vars

\* a finished job both of whose items failed a recipient check, one of them
\* a NO_EMPLOYEE Document
C11_Witness ==
    \E j \in JobIds :
       /\ jobs[j] # NoRow
       /\ jobs[j].status = "completed"
       /\ jobs[j].error_count = 2
       /\ \A d \in DocIds : payslips[d] # NoRow /\ sends[d] = 0
       /\ payslips[1].status = NO_EMPLOYEE
       /\ payslips[2].employee = "inactive"

(***************************************************************************)
(* C12 - an attempt that fails with a transport error which carries no     *)
(* rate-limit signature (an SMTP error of another kind, or any other       *)
(* exception of the attempt such as a timeout) is retried after the fixed  *)
(* delay MAIL_RETRY_BASE_DELAY while attempts remain, and the call returns *)
(* failure only when the attempt bound is exhausted.                       *)
(***************************************************************************)
PlainTransportError ==
    /\ mail.pc = "try"
    /\ mail.file
    /\ mail.outs[mail.attempt + 1] \in {"smtp", "other"}

C12_PlainErrorRetried ==
    [][PlainTransportError =>
          IF mail.attempt < MAIL_RETRY_MAX_ATTEMPTS
          THEN /\ mail'.pc = "try"
               /\ mail'.attempt = mail.attempt + 1
               /\ mail'.waits = Append(mail.waits, MAIL_RETRY_BASE_DELAY)
          ELSE /\ mail'.pc = "done"
               /\ mail'.ret[1] = FALSE]_vars

(***************************************************************************)
(* C13 - while every failure of a call so far carried a rate-limit         *)
(* signature, the waits before its retries form a geometric progression:   *)
(* the first wait is MAIL_RETRY_BASE_DELAY and each later wait is the      *)
(* previous one times one fixed factor r > 1 (stated without division:     *)
(* consecutive waits grow and w[k+2] * w[k] = w[k+1] * w[k+1]).            *)
(***************************************************************************)
RateLimitedSoFar ==
    /\ mail.pc \in {"try", "done"}
    /\ Len(mail.waits) >= 1
    /\ \A k \in 1..Len(mail.waits) : mail.outs[k] = "rate"

C13_ExponentialBackoff ==
    RateLimitedSoFar =>
        /\ mail.waits[1] = MAIL_RETRY_BASE_DELAY
        /\ \A k \in 1..(Len(mail.waits) - 1) : mail.waits[k + 1] > mail.waits[k]
        /\ \A k \in 1..(Len(mail.waits) - 2) :
              mail.waits[k + 2] * mail.waits[k] = mail.waits[k + 1] * mail.waits[k + 1]

(***************************************************************************)
(* C14 - every item a job handles adds exactly one to completed and one to *)
(* either success_count or error_count, whatever the course of its send    *)
(* attempts, and in every state of the job record                          *)
(*     completed = success_count + error_count  and  completed <= total.   *)
(***************************************************************************)
JobRecords == {j \in JobIds : jobs[j] # NoRow}

C14_OnePerItem ==
    \A j \in JobIds :
        ItemStep(j) =>
            /\ jobs'[j].completed = jobs[j].completed + 1
            /\ \/ /\ jobs'[j].success_count = jobs[j].success_count + 1
                  /\ jobs'[j].error_count = jobs[j].error_count
               \/ /\ jobs'[j].success_count = jobs[j].success_count
                  /\ jobs'[j].error_count = jobs[j].error_count + 1

C14_CountersSum ==
    \A j \in JobRecords : jobs[j].completed = jobs[j].success_count + jobs[j].error_count

C14_WithinTotal ==
    \A j \in JobRecords : jobs[j].completed <= jobs[j].total

C14_ProgressCounters ==
    /\ [][C14_OnePerItem]_vars
    /\ [](C14_CountersSum /\ C14_WithinTotal)

(***************************************************************************)
(* C15 - a job record is created PENDING and its status moves only         *)
(* PENDING -> RUNNING, RUNNING -> COMPLETED or RUNNING -> FAILED; a record *)
(* that is COMPLETED or FAILED never changes again, neither its status nor *)
(* any of its counters or results.                                         *)
(***************************************************************************)
Terminal == {"completed", "failed"}

StatusMoves == {<<"pending", "running">>, <<"running", "completed">>, <<"running", "failed">>}

C15_StatusLifecycle ==
    [][\A j \in JobIds :
          /\ (jobs[j] = NoRow /\ jobs'[j] # NoRow) => jobs'[j].status = "pending"
          /\ jobs[j] # NoRow =>
                /\ jobs'[j] # NoRow
                /\ \/ jobs'[j].status = jobs[j].status
                   \/ <<jobs[j].status, jobs'[j].status>> \in StatusMoves
                /\ jobs[j].status \in Terminal => jobs'[j] = jobs[j]]_vars

\* one job has completed with an item handled, a later one has failed
C15_Witness ==
    /\ jobs[1] # NoRow
    /\ jobs[2] # NoRow
    /\ jobs[1].status = "completed"
    /\ jobs[1].completed >= 1
    /\ jobs[2].status = "failed"

(***************************************************************************)
(* C16 - whenever a job is COMPLETED, completed equals the total fixed at  *)
(* its creation and the job has recorded one result for each item counted  *)
(* in that total.                                                          *)
(***************************************************************************)
C16_CompletedMeansAll ==
    \A j \in JobRecords :
        jobs[j].status = "completed" =>
            /\ jobs[j].completed = jobs[j].total
            /\ Len(jobs[j].results) = jobs[j].total

(***************************************************************************)
(* C17 - within one job the items are handled, and their results appended, *)
(* in the order in which the request that created the job enumerated the   *)
(* document ids: of two results of a running job, the earlier one belongs  *)
(* to the id the request names first.                                      *)
(***************************************************************************)
PositionIn(ids, d) == CHOOSE i \in DOMAIN ids : ids[i] = d /\ \A k \in 1..(i - 1) : ids[k] # d

C17_RequestOrder ==
    \A j \in JobIds :
        worker[j].pc = "loop" =>
            \A a, b \in DOMAIN jobs[j].results :
                a < b => PositionIn(worker[j].payslip_ids, jobs[j].results[a].payslip_id)
                            < PositionIn(worker[j].payslip_ids, jobs[j].results[b].payslip_id)

(***************************************************************************)
(* C18 - a job ends FAILED only for a setup error (the tenant or its       *)
(* transport configuration is absent, or no document matches); a failure   *)
(* that concerns one item never fails the job.                             *)
(***************************************************************************)
SetupErrors == {"Sirket bulunamadi", "Bordro bulunamadi"}

C18_FailedOnlyForSetup ==
    \A j \in JobRecords :
        jobs[j].status = "failed" => jobs[j].error_message \in SetupErrors

(***************************************************************************)
(* C19 - verifying a link against its own signature returns true, for      *)
(* every tracking id and timestamp, and verifying it against any signature *)
(* that differs from its own in at least one character returns false, the  *)
(* signature of another tracking id or timestamp included.                 *)
(***************************************************************************)
C19_RoundTrip ==
    link.pc = "verified" =>
        IF link.s = create_download_signature(link.tracking_id, link.t)
        THEN link.outcome = "True"
        ELSE link.outcome = "False"

(***************************************************************************)
(* C20 - after the upload of a PDF of n pages, every page has either       *)
(* exactly one persisted Document or exactly one error that names the      *)
(* page, so Documents plus page errors make n; a page that can be used     *)
(* has its Document whatever happened to the other pages; and a Document   *)
(* is PENDING when an employee of the uploading tenant has the identity    *)
(* found on its page, NO_EMPLOYEE otherwise.                               *)
(***************************************************************************)
DocumentsOfPage(i) == {k \in DOMAIN pdf.created : pdf.created[k].page = i}
ErrorsOfPage(i) == {k \in DOMAIN resp.errors : resp.errors[k].page = i}

Usable(page) == page.tc # None /\ page.rows = 2 /\ page.saved

C20_OneOutcomePerPage ==
    (pdf.pc = "uploaded" /\ pdf.file.readable) =>
        LET pages == pdf.file.pages
            n == Len(pages)
            c == CompanyOf(pdf.user)
        IN  /\ \A i \in 1..n :
                  Cardinality(DocumentsOfPage(i)) + Cardinality(ErrorsOfPage(i)) = 1
            /\ Len(pdf.created)
                  + Cardinality({k \in DOMAIN resp.errors : resp.errors[k].page \in 1..n}) = n
            /\ \A i \in 1..n : Usable(pages[i]) => DocumentsOfPage(i) # {}
            /\ \A k, l \in DOMAIN pdf.created :
                  k # l => pdf.created[k].id # pdf.created[l].id
            /\ \A k \in DOMAIN pdf.created :
                  LET d == pdf.created[k].id
                      tc == pages[pdf.created[k].page].tc
                  IN  /\ d \in DocIds
                      /\ payslips[d] # NoRow
                      /\ payslips[d].company_id = c
                      /\ payslips[d].pdf_path \in files
                      /\ payslips[d].status =
                            IF \E e \in Employees : e.company_id = c /\ e.tc_no = tc
                            THEN PENDING ELSE NO_EMPLOYEE

\* a three-page PDF whose second page carries no identity: two Documents,
\* one for a known employee and one for an identity the tenant does not
\* have, and one error naming page 2
C20_Witness ==
    /\ pdf.pc = "uploaded"
    /\ Len(pdf.file.pages) = 3
    /\ pdf.file.pages[2].tc = None
    /\ Len(pdf.created) = 2
    /\ payslips[1] # NoRow
    /\ payslips[2] # NoRow
    /\ payslips[1].status = PENDING
    /\ payslips[2].status = NO_EMPLOYEE
    /\ resp.total_pages = 3
    /\ resp.errors[1] = [page |-> 2, msg |-> MSG_NOTC]

(***************************************************************************)
(* C21 - a page with an identity token and exactly one valid name row is   *)
(* a successful extraction and yields a Document; a page is reported as an *)
(* extraction error only when it has no identity token or no valid name    *)
(* row.                                                                    *)
(***************************************************************************)
C21_SingleNameRowExtracts ==
    (pdf.pc = "uploaded" /\ pdf.file.readable) =>
        \A i \in 1..Len(pdf.file.pages) :
            LET page == pdf.file.pages[i] IN
            /\ (page.tc # None /\ page.rows = 1 /\ page.saved) => DocumentsOfPage(i) # {}
            /\ (\E k \in ErrorsOfPage(i) : resp.errors[k].msg = MSG_NOTC)
                  => (page.tc = None \/ page.rows = 0)

(***************************************************************************)
(* C22 - one encrypted file per Document: no two existing Documents        *)
(* reference the same artifact path, and no step removes the file of a     *)
(* Document that exists before and after it.                               *)
(***************************************************************************)
C22_DistinctPaths ==
    \A d, e \in DocIds :
        (d # e /\ payslips[d] # NoRow /\ payslips[e] # NoRow)
            => payslips[d].pdf_path # payslips[e].pdf_path

C22_FileKept ==
    \A d \in DocIds :
        (payslips[d] # NoRow /\ payslips'[d] # NoRow /\ payslips[d].pdf_path \in files)
            => payslips'[d].pdf_path \in files'

C22_OneFilePerDocument == []C22_DistinctPaths /\ [][C22_FileKept]_vars

\* ---------------------------------------------------------------------
\* C23  The download endpoint never serves a file whose resolved absolute
\* path lies outside the output directory: sanitize_path returns a path
\* only when the resolved path is the directory or a descendant of it, and
\* then returns that resolved path; a Document whose stored path resolves
\* anywhere else is never served, gets no DOWNLOADED event and keeps its
\* status.
BelowRoot(q) ==
    /\ Len(q) >= Len(PDF_OUTPUT_DIR)
    /\ \A i \in 1..Len(PDF_OUTPUT_DIR) : q[i] = PDF_OUTPUT_DIR[i]

C23_OnlyBelowRoot ==
    /\ \A q \in StoredPaths :
          sanitize_path(q, PDF_OUTPUT_DIR) # NoPath =>
              /\ sanitize_path(q, PDF_OUTPUT_DIR) = abspath(q)
              /\ BelowRoot(abspath(q))
    /\ \A d \in DocIds :
          (payslips[d] # NoRow /\ ~BelowRoot(abspath(payslips[d].pdf_path))) =>
              /\ served[payslips[d].tracking_id] = <<>>
              /\ events[d].downloaded = 0
              /\ payslips[d].status = SENT

\* a request with a valid link for a Document whose file exists outside the
\* output directory was refused because of the path
C23_Witness ==
    /\ resp = Download(403, "Dosyaya erisim reddedildi")
    /\ payslips[1] # NoRow
    /\ ~BelowRoot(abspath(payslips[1].pdf_path))
    /\ abspath(payslips[1].pdf_path) \in files
    /\ "~" \notin Range(payslips[1].pdf_path)
    /\ ".." \notin Range(payslips[1].pdf_path)

\* ---------------------------------------------------------------------
\* C24  Every started job eventually reaches COMPLETED or FAILED, and no
\* item is retried indefinitely: a call of send_payslip_email makes at
\* most MAIL_RETRY_MAX_ATTEMPTS + 1 attempts, whatever its attempts meet.
Finished(j) == jobs[j] # NoRow /\ jobs[j].status \in {"completed", "failed"}

\* m.attempt is the loop variable of the last attempt made, counted from 0
AttemptsMade(m) == m.attempt + 1

C24_AttemptsBounded ==
    \A f \in BOOLEAN, tr \in Transport :
        AttemptsMade(MailRun(MailCall(f, tr))) <= MAIL_RETRY_MAX_ATTEMPTS + 1

C24_JobsFinish ==
    /\ []C24_AttemptsBounded
    /\ \A j \in JobIds : (worker[j].pc = "queued") ~> Finished(j)

\* a job of two items has finished, one delivered and one given up after
\* its retries
C24_Witness ==
    \E j \in JobIds :
        /\ Finished(j)
        /\ jobs[j].completed = 2
        /\ jobs[j].error_count = 1
        /\ jobs[j].success_count = 1

\* ---------------------------------------------------------------------
\* C25  The worker of a job holds at most one open transport connection at
\* a time, reuses it for consecutive successful sends, and when the send
\* loop has exited every connection the job opened has been closed.
C25_AtMostOneOpen ==
    mail.pc \in {"send", "closed"} => Cardinality(mail.open) <= 1

C25_AllClosedAtExit ==
    mail.pc = "closed" => mail.open = {}

C25_Reused ==
    (mail.pc = "send" /\ mail'.pc = "send" /\ mail' # mail
        /\ mail.last = "ok" /\ mail'.last = "ok" /\ mail'.alive)
    => mail'.smtp_connection = mail.smtp_connection

C25_OneConnection ==
    /\ []C25_AtMostOneOpen
    /\ []C25_AllClosedAtExit
    /\ [][C25_Reused]_vars

\* ---------------------------------------------------------------------
\* C26  A pixel request and a download request for the same SENT Document,
\* handled concurrently, leave it DOWNLOADED whatever the interleaving: once
\* every request has been answered, a Document with a DOWNLOADED event is
\* DOWNLOADED, and no step takes a DOWNLOADED Document back to OPENED.
C26_EndsDownloaded ==
    (\A h \in Handlers : handlers[h] = Idle) =>
        \A d \in DocIds :
            (payslips[d] # NoRow /\ events[d].downloaded > 0) =>
                payslips[d].status = DOWNLOADED

C26_NotOverwritten ==
    \A d \in DocIds :
        (payslips[d] # NoRow /\ payslips'[d] # NoRow /\ payslips[d].status = DOWNLOADED)
            => payslips'[d].status # OPENED

C26_PixelAndDownload ==
    /\ []C26_EndsDownloaded
    /\ [][C26_NotOverwritten]_vars

\* ---------------------------------------------------------------------
\* C27  A PENDING Document targeted by two bulk-send jobs without
\* force_resend that run concurrently is emailed at most once and gets at
\* most one SENT tracking event.  (Under SpecJobs2 every job is without
\* force_resend, every Document starts PENDING and every send is accepted.)
C27_SentOnce ==
    \A d \in DocIds : sends[d] <= 1 /\ events[d].sent <= 1

\* ---------------------------------------------------------------------
\* C28  The outcome of an item is durable whatever happens to later items:
\* when a job ends FAILED, every Document its result list reports as
\* delivered (and that still exists) is SENT, OPENED or DOWNLOADED and has
\* a SENT event.
C28_Delivered(j) ==
    {jobs'[j].results[k].payslip_id :
        k \in {i \in 1..Len(jobs'[j].results) : jobs'[j].results[i].success}}

C28_DurableAtFailure ==
    \A j \in JobIds :
        (jobs[j] # NoRow /\ jobs'[j] # NoRow
            /\ jobs[j].status # "failed" /\ jobs'[j].status = "failed")
        => \A d \in C28_Delivered(j) :
               payslips'[d] # NoRow =>
                   /\ payslips'[d].status \in {SENT, OPENED, DOWNLOADED}
                   /\ events'[d].sent >= 1

C28_ItemsDurable == [][C28_DurableAtFailure]_vars

\* ---------------------------------------------------------------------
\* C29  A rejected download request (400, 403, 410, 429 or 404) leaves the
\* durable state as it was: no tracking event is added and no Document
\* changes its status or its send metadata.
Rejections == {400, 403, 404, 410, 429}

C29_Unchanged ==
    (resp'.op = "download" /\ resp'.code \in Rejections)
        => (payslips' = payslips /\ events' = events)

C29_RejectedLeavesState == [][C29_Unchanged]_vars

\* a request was rejected for its rate after a download had been recorded
C29_Witness ==
    /\ resp.op = "download"
    /\ resp.code = 429
    /\ events[1].downloaded > 0
    /\ payslips[1].status = DOWNLOADED

\* ---------------------------------------------------------------------
\* C30  In every reachable state a DOWNLOADED Document has at least one
\* DOWNLOADED event, an OPENED Document at least one OPENED event, and a
\* SENT, OPENED or DOWNLOADED Document at least one SENT event.
C30_StatusHasEvent ==
    \A d \in DocIds :
        payslips[d] # NoRow =>
            /\ payslips[d].status = DOWNLOADED => events[d].downloaded >= 1
            /\ payslips[d].status = OPENED => events[d].opened >= 1
            /\ payslips[d].status \in {SENT, OPENED, DOWNLOADED} => events[d].sent >= 1

\* a Document that was mailed, opened and downloaded carries all three events
C30_Witness ==
    \E d \in DocIds :
        /\ payslips[d] # NoRow
        /\ payslips[d].status = DOWNLOADED
        /\ events[d].sent >= 1
        /\ events[d].opened >= 1
        /\ events[d].downloaded >= 1

====
